---- MODULE Spec2Model ----
(***************************************************************************)
(* Model of the Satsiber data-center drawing generators:                   *)
(*   generate_dxf.py  (ezdxf, one DXF document per sheet)                  *)
(*   generate_pdf.py  (reportlab, one PDF canvas per sheet)                *)
(*                                                                         *)
(* Strings that the program splits, joins or compares are sequences of     *)
(* tokens (their concatenation is the Python string); every other string   *)
(* is a one-token sequence or a plain TLA+ string.                         *)
(*                                                                         *)
(* DXF coordinates are kept in tenths of a drawing unit (du = 10), so that *)
(* w / 2, radius * 0.4 and heights such as 2.5 stay integers.              *)
(* PDF coordinates are kept in 1/720 mm (mm = 720, 1 point = 254), so that *)
(* reportlab's mm = 72/25.4 points and halves of both stay integers.       *)
(***************************************************************************)
EXTENDS Integers, Sequences, FiniteSets, TLC

VARIABLES fmt, run, sheet, pc, doc, disk, disk0, events, clock, status, tk

vars == <<fmt, run, sheet, pc, doc, disk, disk0, events, clock, status, tk>>

batchVars == <<fmt, run, sheet, pc, doc, disk, disk0, events, clock, status>>

----------------------------------------------------------------------------
(* Bounds of the model *)

MaxClock == 1

MaxRuns == 2

MaxCalls == 1

----------------------------------------------------------------------------
(* generate_dxf.py: constants *)

du == 10

WHITE == 7

RED == 1

YELLOW == 2

GREEN == 3

CYAN == 4

BLUE == 5

MAGENTA == 6

GRAY == 8

ByLayer == -1

DxfOutputDir == <<"build", "/", "dxf", "/">>

Pt(x, y) == <<x, y>>

LwPolyline(pts, color, lw, lt) ==
  [pts |-> pts, color |-> color, lw |-> lw, lt |-> lt, kind |-> "LWPOLYLINE"]

DxfLine(p1, p2, color, lw, lt) ==
  [pts |-> <<p1, p2>>, color |-> color, lw |-> lw, lt |-> lt, kind |-> "LINE"]

DxfCircle(c, r, color, lw) ==
  [pts |-> <<c>>, color |-> color, lw |-> lw, lt |-> "BYLAYER", kind |-> "CIRCLE", r |-> r]

DxfText(s, h, color, style, at, align) ==
  [pts |-> <<at>>, color |-> color, kind |-> "TEXT", style |-> style, align |-> align,
   text |-> s, height |-> h, rotation |-> 0]

(* add_text with "rotation" among its dxfattribs *)
DxfTextRotated(s, h, color, style, at, align, rotation) ==
  [DxfText(s, h, color, style, at, align) EXCEPT !.rotation = rotation]

(* add_title_block(msp, dwg_no, title_line1, title_line2, standard, x_off, y_off) *)
add_title_block(dwg_no, title_line1, title_line2, standard, x_off, y_off) ==
  LET bx == x_off
      by == y_off
  IN << LwPolyline(<<Pt(bx, by), Pt(bx + 570*du, by), Pt(bx + 570*du, by + 140*du),
                     Pt(bx, by + 140*du), Pt(bx, by)>>, WHITE, 50, "BYLAYER"),
        DxfText(<<"SATSIBER">>, 180, WHITE, "TITLE",
                Pt(bx + 100*du, by + 115*du), "MIDDLE_CENTER"),
        DxfText(<<"DATA CENTER FACILITY">>, 60, GRAY, "Standard",
                Pt(bx + 100*du, by + 95*du), "MIDDLE_CENTER"),
        DxfLine(Pt(bx + 200*du, by), Pt(bx + 200*du, by + 140*du), WHITE, ByLayer, "BYLAYER"),
        DxfText(<<"DRAWING TITLE:">>, 40, GRAY, "Standard",
                Pt(bx + 210*du, by + 125*du), "LEFT"),
        DxfText(title_line1, 80, WHITE, "TITLE", Pt(bx + 210*du, by + 112*du), "LEFT"),
        DxfText(title_line2, 70, WHITE, "Standard", Pt(bx + 210*du, by + 100*du), "LEFT"),
        DxfLine(Pt(bx + 200*du, by + 90*du), Pt(bx + 570*du, by + 90*du), WHITE, ByLayer, "BYLAYER"),
        DxfText(<<"DWG NO: ">> \o dwg_no, 60, WHITE, "Standard",
                Pt(bx + 210*du, by + 75*du), "LEFT"),
        DxfText(<<"REV: A">>, 60, WHITE, "Standard", Pt(bx + 380*du, by + 75*du), "LEFT"),
        DxfText(<<"DATE: ", "2026-02-27">>, 60, WHITE, "Standard",
                Pt(bx + 450*du, by + 75*du), "LEFT"),
        DxfLine(Pt(bx + 200*du, by + 65*du), Pt(bx + 570*du, by + 65*du), WHITE, ByLayer, "BYLAYER"),
        DxfText(<<"SCALE: NTS">>, 50, WHITE, "Standard", Pt(bx + 210*du, by + 50*du), "LEFT"),
        DxfText(<<"STD: ">> \o standard, 50, WHITE, "Standard",
                Pt(bx + 350*du, by + 50*du), "LEFT"),
        DxfLine(Pt(bx + 200*du, by + 40*du), Pt(bx + 570*du, by + 40*du), WHITE, ByLayer, "BYLAYER"),
        DxfText(<<"UPTIME TIER III">>, 70, RED, "TITLE", Pt(bx + 210*du, by + 20*du), "LEFT"),
        DxfLine(Pt(bx, by + 90*du), Pt(bx + 200*du, by + 90*du), WHITE, ByLayer, "BYLAYER"),
        DxfText(<<"DESIGNED: SATSIBER ENGINEERING">>, 50, WHITE, "Standard",
                Pt(bx + 10*du, by + 70*du), "LEFT"),
        DxfLine(Pt(bx, by + 60*du), Pt(bx + 200*du, by + 60*du), WHITE, ByLayer, "BYLAYER"),
        DxfText(<<"CHECKED: ___________">>, 50, GRAY, "Standard",
                Pt(bx + 10*du, by + 42*du), "LEFT"),
        DxfLine(Pt(bx, by + 30*du), Pt(bx + 200*du, by + 30*du), WHITE, ByLayer, "BYLAYER"),
        DxfText(<<"APPROVED: ___________">>, 50, GRAY, "Standard",
                Pt(bx + 10*du, by + 14*du), "LEFT") >>

(* add_border(msp, width, height) *)
add_border(width, height) ==
  << LwPolyline(<<Pt(0, 0), Pt(width, 0), Pt(width, height), Pt(0, height), Pt(0, 0)>>,
                WHITE, 70, "BYLAYER"),
     LwPolyline(<<Pt(5*du, 5*du), Pt(width - 5*du, 5*du), Pt(width - 5*du, height - 5*du),
                  Pt(5*du, height - 5*du), Pt(5*du, 5*du)>>, WHITE, 18, "BYLAYER") >>

add_room_box_NoClose(x, y, w, h, label, ref, color) ==
  << LwPolyline(<<Pt(x, y), Pt(x + w, y), Pt(x + w, y + h), Pt(x, y + h)>>,
                color, 35, "BYLAYER"),
     DxfText(label, 60, color, "TITLE", Pt(x + w \div 2, y + h - 10*du), "MIDDLE_CENTER"),
     DxfText(ref, 40, RED, "Standard", Pt(x + w - 5*du, y + h - 5*du), "MIDDLE_RIGHT") >>

(* add_room_box(msp, x, y, w, h, label, ref, color): no check of w or h *)
add_room_box(x, y, w, h, label, ref, color) ==
  << LwPolyline(<<Pt(x, y), Pt(x + w, y), Pt(x + w, y + h), Pt(x, y + h), Pt(x, y)>>,
                color, 35, "BYLAYER"),
     DxfText(label, 60, color, "TITLE", Pt(x + w \div 2, y + h - 10*du), "MIDDLE_CENTER"),
     DxfText(ref, 40, RED, "Standard", Pt(x + w - 5*du, y + h - 5*du), "MIDDLE_RIGHT") >>

(* add_equipment(msp, x, y, w, h, label, tag, color, dashed): no check of w or h *)
add_equipment(x, y, w, h, label, tag, color, dashed) ==
  LET pts == <<Pt(x, y), Pt(x + w, y), Pt(x + w, y + h), Pt(x, y + h), Pt(x, y)>>
      lt  == IF dashed THEN "DASHED" ELSE "BYLAYER"
  IN << LwPolyline(pts, color, 25, lt),
        DxfText(label, 40, color, "Standard",
                Pt(x + w \div 2, y + h \div 2 + 2*du), "MIDDLE_CENTER"),
        DxfText(tag, 30, color, "Standard",
                Pt(x + w \div 2, y + h \div 2 - 4*du), "MIDDLE_CENTER") >>

(* add_bus_bar(msp, x, y, length, label, color, horizontal) *)
add_bus_bar(x, y, length, label, color, horizontal) ==
  IF horizontal
  THEN << LwPolyline(<<Pt(x, y), Pt(x + length, y)>>, color, 70, "BYLAYER"),
          DxfText(label, 40, color, "Standard",
                  Pt(x + length \div 2, y - 8*du), "MIDDLE_CENTER") >>
  ELSE << LwPolyline(<<Pt(x, y), Pt(x, y + length)>>, color, 70, "BYLAYER") >>

(* add_generator_symbol(msp, cx, cy, radius, label, tag, color): no check of radius *)
add_generator_symbol(cx, cy, radius, label, tag, color) ==
  << DxfCircle(Pt(cx, cy), radius, color, 35),
     DxfText(<<"G">>, (radius * 12) \div 10, color, "TITLE", Pt(cx, cy), "MIDDLE_CENTER"),
     DxfText(label, 35, color, "Standard", Pt(cx, cy - radius - 6*du), "MIDDLE_CENTER"),
     DxfText(tag, 30, CYAN, "Standard", Pt(cx, cy - radius - 12*du), "MIDDLE_CENTER") >>

(* add_transformer_symbol(msp, cx, cy, radius, label, color): no check of radius *)
add_transformer_symbol(cx, cy, radius, label, color) ==
  << DxfCircle(Pt(cx, cy + (radius * 4) \div 10), radius, color, 35),
     DxfCircle(Pt(cx, cy - (radius * 4) \div 10), radius, color, 35),
     DxfText(label, 35, color, "Standard", Pt(cx + radius + 5*du, cy), "MIDDLE_LEFT") >>

(* add_cb_symbol(msp, x, y, label, color) *)
add_cb_symbol(x, y, label, color) ==
  LET s == 4*du
  IN << LwPolyline(<<Pt(x - s, y - s \div 2), Pt(x + s, y - s \div 2),
                     Pt(x + s, y + s \div 2), Pt(x - s, y + s \div 2),
                     Pt(x - s, y - s \div 2)>>, color, 18, "BYLAYER"),
        DxfText(label, 25, color, "Standard", Pt(x, y), "MIDDLE_CENTER") >>

(* create_text_style(doc, name, font): registers the style unless present *)
create_text_style(d, name, font) ==
  IF \E k \in 1..Len(d.styles) : d.styles[k] = name
  THEN d
  ELSE [d EXCEPT !.styles = Append(@, name)]

add_linetype(d, name) ==
  IF \E k \in 1..Len(d.linetypes) : d.linetypes[k] = name
  THEN d
  ELSE [d EXCEPT !.linetypes = Append(@, name)]

(* ezdxf.new("R2018"): an empty drawing with the default tables; the header *)
(* variables $TDCREATE and $TDUPDATE are stamped from the wall clock `now`. *)
(* (ezdxf also draws random $FINGERPRINTGUID/$VERSIONGUID values, which are *)
(* further run-dependent header fields and are left out here.)              *)
ezdxf_new(now) ==
  [fmt |-> "dxf", styles |-> <<"Standard">>,
   linetypes |-> <<"ByBlock", "ByLayer", "Continuous">>, units |-> "none", entities |-> <<>>,
   tdcreate |-> now, tdupdate |-> now]

setup_doc_NoDashDot(old, now) ==
  LET d0 == [ezdxf_new(now) EXCEPT !.units = "MM"]
      d1 == create_text_style(d0, "TITLE", "Arial")
      d2 == create_text_style(d1, "NOTES", "Arial")
      d3 == add_linetype(d2, "DASHED")
  IN d3

setup_doc_Shared(old, now) ==
  IF old.fmt = "dxf"
  THEN old
  ELSE LET d0 == [ezdxf_new(now) EXCEPT !.units = "MM"]
       IN add_linetype(add_linetype(
            create_text_style(create_text_style(d0, "TITLE", "Arial"), "NOTES", "Arial"),
            "DASHED"), "DASHDOT")

(* setup_doc(): `old` is whatever document existed before the call; the    *)
(* function takes no argument and builds its result from ezdxf.new alone.   *)
setup_doc(old, now) ==
  LET d0 == [ezdxf_new(now) EXCEPT !.units = "MM"]
      d1 == create_text_style(d0, "TITLE", "Arial")
      d2 == create_text_style(d1, "NOTES", "Arial")
      d3 == add_linetype(d2, "DASHED")
      d4 == add_linetype(d3, "DASHDOT")
  IN d4

(* msp.add_*: append entities to the modelspace of d *)
msp_add(d, ents) == [d EXCEPT !.entities = @ \o ents]

(* doc.saveas(out): the bytes written; ezdxf refreshes $TDUPDATE on export *)
dxf_export(d, now) == [d EXCEPT !.tdupdate = now]

(* A stretch of a composer body between two section comments of the source *)
Section(code, name) == [sheet |-> code, kind |-> "SECTION", name |-> name]

SectionsOf(code, names) == [k \in 1..Len(names) |-> Section(code, names[k])]

(* One call made by a composer body: the function called (a helper, or a     *)
(* method of msp or of the canvas c), the source line of the call, the line  *)
(* of the for statement around it (0: none) with the iteration the call is   *)
(* made in, and what the call draws: DXF entities or canvas instructions.    *)
Stmt(fn, line, loop, iter, out) ==
  [fn |-> fn, line |-> line, loop |-> loop, iter |-> iter, out |-> out]

(* generate_floor_plan *)
generate_floor_plan ==
  [dwg_no |-> <<"SAT", "-", "DC", "-", "FP", "-", "001">>,
   title_line1 |-> <<"DATA CENTER FLOOR PLAN">>, title_line2 |-> <<"GENERAL ARRANGEMENT">>,
   standard |-> <<"UPTIME TIER III">>, x_off |-> 600*du, y_off |-> 10*du,
   out |-> DxfOutputDir \o <<"SAT", "-", "DC", "-", "FP", "-", "001", "_",
                              "Floor", "-", "Plan", ".", "dxf">>,
   W |-> 1180*du, H |-> 840*du,
   body |-> SectionsOf("FP", <<"Building envelope", "Security Vestibule", "Lobby",
            "Data Hall", "Rack rows", "UPS Room A", "UPS Room B", "Electrical Room",
            "Generator Yard", "NOC", "Meet-Me Room", "Cooling Plant", "Staging",
            "Fire Control", "Cooling Yard", "North arrow", "Legend">>)]

(* generate_electrical *)
generate_electrical ==
  [dwg_no |-> <<"SAT", "-", "DC", "-", "EL", "-", "001">>,
   title_line1 |-> <<"ELECTRICAL SINGLE LINE DIAGRAM">>,
   title_line2 |-> <<"MAIN POWER DISTRIBUTION">>, standard |-> <<"IEC 60617 / IEEE C2">>,
   x_off |-> 600*du, y_off |-> 10*du,
   out |-> DxfOutputDir \o <<"SAT", "-", "DC", "-", "EL", "-", "001", "_",
                              "Electrical", "-", "SLD", ".", "dxf">>,
   W |-> 1180*du, H |-> 840*du,
   body |-> SectionsOf("EL", <<"PATH labels", "Concurrent maintainability separator",
            "Distribution paths", "N+1 Generator", "IT Load zone", "Rack symbols",
            "Notes">>)]

(* generate_network *)
generate_network ==
  [dwg_no |-> <<"SAT", "-", "DC", "-", "NT", "-", "001">>,
   title_line1 |-> <<"NETWORK TOPOLOGY DIAGRAM">>, title_line2 |-> <<"LOGICAL & PHYSICAL">>,
   standard |-> <<"TIA-942 / ISO/IEC 24764">>, x_off |-> 600*du, y_off |-> 10*du,
   out |-> DxfOutputDir \o <<"SAT", "-", "DC", "-", "NT", "-", "001", "_",
                              "Network", "-", "Topology", ".", "dxf">>,
   W |-> 1180*du, H |-> 840*du,
   body |-> SectionsOf("NT", <<"Zone labels and separators",
            "Concurrent maintainability boundary", "ISP", "MMR box", "Paths",
            "OOB Management", "Dual-home note", "Legend">>)]

(* generate_cooling *)
generate_cooling ==
  [dwg_no |-> <<"SAT", "-", "DC", "-", "CL", "-", "001">>,
   title_line1 |-> <<"HVAC & COOLING SYSTEM DIAGRAM">>,
   title_line2 |-> <<"CHILLED WATER DISTRIBUTION">>, standard |-> <<"ASHRAE TC 9.9">>,
   x_off |-> 600*du, y_off |-> 10*du,
   out |-> DxfOutputDir \o <<"SAT", "-", "DC", "-", "CL", "-", "001", "_",
                              "Cooling", "-", "System", ".", "dxf">>,
   W |-> 1180*du, H |-> 840*du,
   body |-> SectionsOf("CL", <<"Outdoor section", "Cooling Towers", "Chillers",
            "Condenser water arrows", "Primary CHW bus", "Primary pumps",
            "Secondary CHW bus", "Secondary pumps", "Connection primary to secondary",
            "CRAH Units", "Airflow pattern", "Environmental monitoring", "Legend">>)]

generate_fire_Shifted ==
  [dwg_no |-> <<"SAT", "-", "DC", "-", "FS", "-", "001">>,
   title_line1 |-> <<"FIRE DETECTION & SUPPRESSION">>,
   title_line2 |-> <<"ZONE MAP & SCHEMATIC">>, standard |-> <<"NFPA 75 / NFPA 2001">>,
   x_off |-> 590*du, y_off |-> 10*du,
   out |-> DxfOutputDir \o <<"SAT", "-", "DC", "-", "FS", "-", "001", "_",
                              "Fire", "-", "Suppression", ".", "dxf">>,
   W |-> 1180*du, H |-> 840*du,
   body |-> SectionsOf("FS", <<"FACP", "VESDA Zones", "Suppression systems",
            "FACP to suppression", "Integration systems",
            "Lines from FACP to integrations", "Sequence of operations", "Legend",
            "Standards">>)]

(* generate_fire *)
generate_fire ==
  [dwg_no |-> <<"SAT", "-", "DC", "-", "FS", "-", "001">>,
   title_line1 |-> <<"FIRE DETECTION & SUPPRESSION">>,
   title_line2 |-> <<"ZONE MAP & SCHEMATIC">>, standard |-> <<"NFPA 75 / NFPA 2001">>,
   x_off |-> 600*du, y_off |-> 10*du,
   out |-> DxfOutputDir \o <<"SAT", "-", "DC", "-", "FS", "-", "001", "_",
                              "Fire", "-", "Suppression", ".", "dxf">>,
   W |-> 1180*du, H |-> 840*du,
   body |-> SectionsOf("FS", <<"FACP", "VESDA Zones", "Suppression systems",
            "FACP to suppression", "Integration systems",
            "Lines from FACP to integrations", "Sequence of operations", "Legend",
            "Standards">>)]

(* generate_floor_plan, lines 391-407: the legend drawn for the list          *)
(* legend_items of (color, text) pairs: heading, underline, then per item a   *)
(* swatch and its text at y = ly - 15 - i * 12, i from 0                      *)
generate_floor_plan_legend(legend_items) ==
  LET lx == 680 * du
      ly == 810 * du
      y(i) == ly - 15 * du - i * 12 * du
      call(j) ==
        LET i == (j - 1) \div 2
            c == legend_items[i + 1][1]
            t == legend_items[i + 1][2]
        IN IF j % 2 = 1
           THEN Stmt("msp.add_lwpolyline", 403, 401, i + 1,
                     << LwPolyline(<<Pt(lx, y(i)), Pt(lx + 10 * du, y(i)),
                                     Pt(lx + 10 * du, y(i) + 6 * du), Pt(lx, y(i) + 6 * du),
                                     Pt(lx, y(i))>>, c, ByLayer, "BYLAYER") >>)
           ELSE Stmt("msp.add_text", 407, 401, i + 1,
                     << DxfText(t, 40, WHITE, "Standard",
                                Pt(lx + 15 * du, y(i) + 3 * du), "LEFT") >>)
  IN << Stmt("msp.add_text", 393, 0, 0,
             << DxfText(<<"LEGEND">>, 60, WHITE, "TITLE", Pt(lx, ly), "LEFT") >>),
        Stmt("msp.add_line", 394, 0, 0,
             << DxfLine(Pt(lx, ly - 5 * du), Pt(lx + 160 * du, ly - 5 * du),
                        WHITE, ByLayer, "BYLAYER") >>) >>
     \o [j \in 1..(2 * Len(legend_items)) |-> call(j)]

generate_network_legend_Tight(legend) ==
  LET lx == 620 * du
      ly == 810 * du
      y(i) == ly - 12 * du - i * 4 * du
      call(j) ==
        LET i == (j - 1) \div 2
            c == legend[i + 1][1]
            t == legend[i + 1][2]
        IN IF j % 2 = 1
           THEN Stmt("msp.add_lwpolyline", 706, 704, i + 1,
                     << LwPolyline(<<Pt(lx, y(i)), Pt(lx + 8 * du, y(i)),
                                     Pt(lx + 8 * du, y(i) + 5 * du), Pt(lx, y(i) + 5 * du),
                                     Pt(lx, y(i))>>, c, ByLayer, "BYLAYER") >>)
           ELSE Stmt("msp.add_text", 710, 704, i + 1,
                     << DxfText(t, 35, WHITE, "Standard",
                                Pt(lx + 12 * du, y(i) + 25), "LEFT") >>)
  IN << Stmt("msp.add_text", 695, 0, 0,
             << DxfText(<<"LEGEND", " (PER TIA-942)">>, 50, WHITE, "TITLE", Pt(lx, ly),
                        "LEFT") >>) >>
     \o [j \in 1..(2 * Len(legend)) |-> call(j)]

(* generate_network, lines 693-710: heading, then per item of `legend` a      *)
(* swatch and its text at y = ly - 12 - i * 10, i from 0                      *)
generate_network_legend(legend) ==
  LET lx == 620 * du
      ly == 810 * du
      y(i) == ly - 12 * du - i * 10 * du
      call(j) ==
        LET i == (j - 1) \div 2
            c == legend[i + 1][1]
            t == legend[i + 1][2]
        IN IF j % 2 = 1
           THEN Stmt("msp.add_lwpolyline", 706, 704, i + 1,
                     << LwPolyline(<<Pt(lx, y(i)), Pt(lx + 8 * du, y(i)),
                                     Pt(lx + 8 * du, y(i) + 5 * du), Pt(lx, y(i) + 5 * du),
                                     Pt(lx, y(i))>>, c, ByLayer, "BYLAYER") >>)
           ELSE Stmt("msp.add_text", 710, 704, i + 1,
                     << DxfText(t, 35, WHITE, "Standard",
                                Pt(lx + 12 * du, y(i) + 25), "LEFT") >>)
  IN << Stmt("msp.add_text", 695, 0, 0,
             << DxfText(<<"LEGEND", " (PER TIA-942)">>, 50, WHITE, "TITLE", Pt(lx, ly),
                        "LEFT") >>) >>
     \o [j \in 1..(2 * Len(legend)) |-> call(j)]

(* generate_cooling, lines 833-852 *)
generate_cooling_legend(legend) ==
  LET lx == 620 * du
      ly == 810 * du
      y(i) == ly - 12 * du - i * 10 * du
      call(j) ==
        LET i == (j - 1) \div 2
            c == legend[i + 1][1]
            t == legend[i + 1][2]
        IN IF j % 2 = 1
           THEN Stmt("msp.add_lwpolyline", 848, 846, i + 1,
                     << LwPolyline(<<Pt(lx, y(i)), Pt(lx + 8 * du, y(i)),
                                     Pt(lx + 8 * du, y(i) + 5 * du), Pt(lx, y(i) + 5 * du),
                                     Pt(lx, y(i))>>, c, ByLayer, "BYLAYER") >>)
           ELSE Stmt("msp.add_text", 852, 846, i + 1,
                     << DxfText(t, 35, WHITE, "Standard",
                                Pt(lx + 12 * du, y(i) + 25), "LEFT") >>)
  IN << Stmt("msp.add_text", 836, 0, 0,
             << DxfText(<<"LEGEND", " (PER ASHRAE TC 9.9)">>, 50, WHITE, "TITLE", Pt(lx, ly),
                        "LEFT") >>) >>
     \o [j \in 1..(2 * Len(legend)) |-> call(j)]

(* generate_fire, lines 953-973 *)
generate_fire_legend(legend) ==
  LET lx == 620 * du
      ly == 810 * du
      y(i) == ly - 12 * du - i * 10 * du
      call(j) ==
        LET i == (j - 1) \div 2
            c == legend[i + 1][1]
            t == legend[i + 1][2]
        IN IF j % 2 = 1
           THEN Stmt("msp.add_lwpolyline", 969, 967, i + 1,
                     << LwPolyline(<<Pt(lx, y(i)), Pt(lx + 8 * du, y(i)),
                                     Pt(lx + 8 * du, y(i) + 5 * du), Pt(lx, y(i) + 5 * du),
                                     Pt(lx, y(i))>>, c, ByLayer, "BYLAYER") >>)
           ELSE Stmt("msp.add_text", 973, 967, i + 1,
                     << DxfText(t, 35, WHITE, "Standard",
                                Pt(lx + 12 * du, y(i) + 25), "LEFT") >>)
  IN << Stmt("msp.add_text", 956, 0, 0,
             << DxfText(<<"LEGEND", " (PER NFPA 75/2001)">>, 50, WHITE, "TITLE", Pt(lx, ly),
                        "LEFT") >>) >>
     \o [j \in 1..(2 * Len(legend)) |-> call(j)]

(* generate_floor_plan: the list legend_items of (color, text) pairs *)
generate_floor_plan_legend_items ==
  << <<CYAN, <<"Data Hall">>>>,
     <<YELLOW, <<"UPS / Power Room">>>>,
     <<GREEN, <<"Generator Yard">>>>,
     <<BLUE, <<"NOC / Operations">>>>,
     <<MAGENTA, <<"Meet-Me Room / Electrical">>>>,
     <<RED, <<"Fire Control">>>>,
     <<GRAY, <<"Support / Non-Critical">>>> >>

(* generate_network: the list legend of (color, text) pairs *)
generate_network_legend_items ==
  << <<BLUE, <<"ISP / WAN Cloud">>>>,
     <<MAGENTA, <<"Meet-Me Room">>>>,
     <<YELLOW, <<"Border Router">>>>,
     <<RED, <<"Firewall (HA Pair)">>>>,
     <<GREEN, <<"Core Switch (L3)">>>>,
     <<BLUE, <<"Aggregation Switch">>>>,
     <<GRAY, <<"ToR Access Switch">>>>,
     <<WHITE, <<"Server Rack Row">>>> >>

(* generate_cooling: the list legend of (color, text) pairs *)
generate_cooling_legend_items ==
  << <<CYAN, <<"Cooling Tower / Primary Pipe">>>>,
     <<GREEN, <<"Chiller / Secondary Pipe">>>>,
     <<RED, <<"CRAH Unit / Hot Return">>>>,
     <<BLUE, <<"Cold Aisle Supply">>>>,
     <<MAGENTA, <<"Environmental Monitoring">>>> >>

(* generate_fire: the list legend of (color, text) pairs *)
generate_fire_legend_items ==
  << <<RED, <<"FACP / Signal Line">>>>,
     <<YELLOW, <<"VESDA Detection Zone">>>>,
     <<GREEN, <<"Clean Agent Suppression">>>>,
     <<BLUE, <<"Pre-Action Sprinkler">>>>,
     <<MAGENTA, <<"Emergency Power Off (EPO)">>>>,
     <<WHITE, <<"BMS Integration">>>> >>

(* generate_floor_plan: the calls of the body after the sheet frame, in order: the source *)
(* line of each call, the for statement it is in and its iteration.                        *)
generate_floor_plan_calls ==
  <<
    Stmt("msp.add_lwpolyline", 252, 0, 0, << LwPolyline(<<Pt(30 * du, 170 * du), Pt(580 * du, 170 * du), Pt(580 * du, 810 * du), Pt(30 * du, 810 * du), Pt(30 * du, 170 * du)>>, GRAY, 50, "BYLAYER") >>),
    Stmt("msp.add_text", 256, 0, 0, << DxfText(<<"BUILDING ENVELOPE">>, 50, GRAY, "Standard", Pt(35 * du, 805 * du), "LEFT") >>),
    Stmt("add_room_box", 259, 0, 0, add_room_box(230 * du, 760 * du, 120 * du, 40 * du, <<"SECURITY VESTIBULE">>, <<"R-01">>, GRAY)),
    Stmt("add_room_box", 262, 0, 0, add_room_box(230 * du, 710 * du, 120 * du, 45 * du, <<"LOBBY">>, <<"R-02">>, GRAY)),
    Stmt("add_room_box", 265, 0, 0, add_room_box(140 * du, 320 * du, 380 * du, 380 * du, <<"DATA HALL">>, <<"R-03">>, CYAN)),
    Stmt("msp.add_text", 266, 0, 0, << DxfText(<<"AREA: ~280 m2  |  RAISED FLOOR: 600mm  |  FLOOR LOAD: 12 kPa">>, 35, CYAN, "Standard", Pt(330 * du, 330 * du), "MIDDLE_CENTER") >>),
    Stmt("msp.add_lwpolyline", 277, 274, 1, << LwPolyline(<<Pt(160 * du, 660 * du), Pt(500 * du, 660 * du), Pt(500 * du, 672 * du), Pt(160 * du, 672 * du), Pt(160 * du, 660 * du)>>, WHITE, 35, "BYLAYER") >>),
    Stmt("msp.add_text", 282, 274, 1, << DxfText(<<"ROW A -- A01 | A02 | A03 | A04 | A05 | A06 | A07 | A08 | A09 | A10 | A11 | A12">>, 25, WHITE, "Standard", Pt(330 * du, 666 * du), "MIDDLE_CENTER") >>),
    Stmt("msp.add_text", 289, 274, 1, << DxfText(<<"COLD AISLE">>, 25, BLUE, "Standard", Pt(165 * du, 655 * du), "LEFT") >>),
    Stmt("msp.add_lwpolyline", 277, 274, 2, << LwPolyline(<<Pt(160 * du, 608 * du), Pt(500 * du, 608 * du), Pt(500 * du, 620 * du), Pt(160 * du, 620 * du), Pt(160 * du, 608 * du)>>, WHITE, 35, "BYLAYER") >>),
    Stmt("msp.add_text", 282, 274, 2, << DxfText(<<"ROW B -- B01 | B02 | B03 | B04 | B05 | B06 | B07 | B08 | B09 | B10 | B11 | B12">>, 25, WHITE, "Standard", Pt(330 * du, 614 * du), "MIDDLE_CENTER") >>),
    Stmt("msp.add_text", 293, 274, 2, << DxfText(<<"HOT AISLE (CONTAINED)">>, 25, RED, "Standard", Pt(165 * du, 603 * du), "LEFT") >>),
    Stmt("msp.add_lwpolyline", 277, 274, 3, << LwPolyline(<<Pt(160 * du, 556 * du), Pt(500 * du, 556 * du), Pt(500 * du, 568 * du), Pt(160 * du, 568 * du), Pt(160 * du, 556 * du)>>, WHITE, 35, "BYLAYER") >>),
    Stmt("msp.add_text", 282, 274, 3, << DxfText(<<"ROW C -- C01 | C02 | C03 | C04 | C05 | C06 | C07 | C08 | C09 | C10 | C11 | C12">>, 25, WHITE, "Standard", Pt(330 * du, 562 * du), "MIDDLE_CENTER") >>),
    Stmt("msp.add_text", 289, 274, 3, << DxfText(<<"COLD AISLE">>, 25, BLUE, "Standard", Pt(165 * du, 551 * du), "LEFT") >>),
    Stmt("msp.add_lwpolyline", 277, 274, 4, << LwPolyline(<<Pt(160 * du, 504 * du), Pt(500 * du, 504 * du), Pt(500 * du, 516 * du), Pt(160 * du, 516 * du), Pt(160 * du, 504 * du)>>, WHITE, 35, "BYLAYER") >>),
    Stmt("msp.add_text", 282, 274, 4, << DxfText(<<"ROW D -- D01 | D02 | D03 | D04 | D05 | D06 | D07 | D08 | D09 | D10 | D11 | D12">>, 25, WHITE, "Standard", Pt(330 * du, 510 * du), "MIDDLE_CENTER") >>),
    Stmt("msp.add_text", 293, 274, 4, << DxfText(<<"HOT AISLE (CONTAINED)">>, 25, RED, "Standard", Pt(165 * du, 499 * du), "LEFT") >>),
    Stmt("msp.add_lwpolyline", 277, 274, 5, << LwPolyline(<<Pt(160 * du, 452 * du), Pt(500 * du, 452 * du), Pt(500 * du, 464 * du), Pt(160 * du, 464 * du), Pt(160 * du, 452 * du)>>, WHITE, 35, "BYLAYER") >>),
    Stmt("msp.add_text", 282, 274, 5, << DxfText(<<"ROW E -- E01 | E02 | E03 | E04 | E05 | E06 | E07 | E08 | E09 | E10 | E11 | E12">>, 25, WHITE, "Standard", Pt(330 * du, 458 * du), "MIDDLE_CENTER") >>),
    Stmt("msp.add_text", 289, 274, 5, << DxfText(<<"COLD AISLE">>, 25, BLUE, "Standard", Pt(165 * du, 447 * du), "LEFT") >>),
    Stmt("msp.add_lwpolyline", 277, 274, 6, << LwPolyline(<<Pt(160 * du, 400 * du), Pt(500 * du, 400 * du), Pt(500 * du, 412 * du), Pt(160 * du, 412 * du), Pt(160 * du, 400 * du)>>, WHITE, 35, "BYLAYER") >>),
    Stmt("msp.add_text", 282, 274, 6, << DxfText(<<"ROW F -- F01 | F02 | F03 | F04 | F05 | F06 | F07 | F08 | F09 | F10 | F11 | F12">>, 25, WHITE, "Standard", Pt(330 * du, 406 * du), "MIDDLE_CENTER") >>),
    Stmt("add_room_box", 298, 0, 0, add_room_box(30 * du, 560 * du, 100 * du, 130 * du, <<"UPS ROOM A">>, <<"R-04">>, YELLOW)),
    Stmt("add_equipment", 299, 0, 0, add_equipment(40 * du, 640 * du, 35 * du, 20 * du, <<"UPS-A1">>, <<"400kVA">>, YELLOW, FALSE)),
    Stmt("add_equipment", 300, 0, 0, add_equipment(80 * du, 640 * du, 35 * du, 20 * du, <<"UPS-A2">>, <<"400kVA">>, YELLOW, FALSE)),
    Stmt("add_equipment", 301, 0, 0, add_equipment(40 * du, 610 * du, 35 * du, 20 * du, <<"UPS-A3">>, <<"(", "N+1", ")">>, YELLOW, TRUE)),
    Stmt("add_equipment", 302, 0, 0, add_equipment(40 * du, 575 * du, 75 * du, 15 * du, <<"STS-A">>, <<>>, GREEN, FALSE)),
    Stmt("add_equipment", 303, 0, 0, add_equipment(40 * du, 565 * du, 75 * du, 10 * du, <<"BATTERY A">>, <<"VRLA">>, RED, FALSE)),
    Stmt("add_room_box", 306, 0, 0, add_room_box(30 * du, 400 * du, 100 * du, 130 * du, <<"UPS ROOM B">>, <<"R-05">>, YELLOW)),
    Stmt("add_equipment", 307, 0, 0, add_equipment(40 * du, 480 * du, 35 * du, 20 * du, <<"UPS-B1">>, <<"400kVA">>, YELLOW, FALSE)),
    Stmt("add_equipment", 308, 0, 0, add_equipment(80 * du, 480 * du, 35 * du, 20 * du, <<"UPS-B2">>, <<"400kVA">>, YELLOW, FALSE)),
    Stmt("add_equipment", 309, 0, 0, add_equipment(40 * du, 450 * du, 35 * du, 20 * du, <<"UPS-B3">>, <<"(", "N+1", ")">>, YELLOW, TRUE)),
    Stmt("add_equipment", 310, 0, 0, add_equipment(40 * du, 415 * du, 75 * du, 15 * du, <<"STS-B">>, <<>>, GREEN, FALSE)),
    Stmt("add_equipment", 311, 0, 0, add_equipment(40 * du, 405 * du, 75 * du, 10 * du, <<"BATTERY B">>, <<"VRLA">>, RED, FALSE)),
    Stmt("add_room_box", 314, 0, 0, add_room_box(30 * du, 260 * du, 100 * du, 110 * du, <<"ELECTRICAL ROOM">>, <<"R-06">>, MAGENTA)),
    Stmt("msp.add_text", 315, 0, 0, << DxfText(<<"XFMR-A  XFMR-B">>, 30, MAGENTA, "Standard", Pt(80 * du, 340 * du), "MIDDLE_CENTER") >>),
    Stmt("msp.add_text", 318, 0, 0, << DxfText(<<"ATS-A   ATS-B">>, 30, MAGENTA, "Standard", Pt(80 * du, 325 * du), "MIDDLE_CENTER") >>),
    Stmt("msp.add_text", 321, 0, 0, << DxfText(<<"MSB-A   MSB-B">>, 30, MAGENTA, "Standard", Pt(80 * du, 310 * du), "MIDDLE_CENTER") >>),
    Stmt("msp.add_lwpolyline", 326, 0, 0, << LwPolyline(<<Pt(30 * du, 170 * du), Pt(300 * du, 170 * du), Pt(300 * du, 250 * du), Pt(30 * du, 250 * du), Pt(30 * du, 170 * du)>>, GREEN, 35, "DASHED") >>),
    Stmt("msp.add_text", 330, 0, 0, << DxfText(<<"GENERATOR YARD (OUTDOOR)">>, 50, GREEN, "TITLE", Pt(35 * du, 240 * du), "LEFT") >>),
    Stmt("add_equipment", 333, 0, 0, add_equipment(40 * du, 185 * du, 70 * du, 40 * du, <<"GEN-A">>, <<"2000kVA DIESEL">>, GREEN, FALSE)),
    Stmt("add_equipment", 334, 0, 0, add_equipment(120 * du, 185 * du, 70 * du, 40 * du, <<"GEN-B">>, <<"2000kVA DIESEL">>, GREEN, FALSE)),
    Stmt("add_equipment", 335, 0, 0, add_equipment(200 * du, 185 * du, 70 * du, 40 * du, <<"GEN-C (", "N+1", ")">>, <<"2000kVA DIESEL">>, GREEN, TRUE)),
    Stmt("add_room_box", 338, 0, 0, add_room_box(530 * du, 600 * du, 130 * du, 110 * du, <<"NOC">>, <<"R-08">>, BLUE)),
    Stmt("msp.add_text", 339, 0, 0, << DxfText(<<"NETWORK OPERATIONS CENTER">>, 30, BLUE, "Standard", Pt(595 * du, 670 * du), "MIDDLE_CENTER") >>),
    Stmt("msp.add_text", 342, 0, 0, << DxfText(<<"VIDEO WALL  |  6 OPERATOR STATIONS">>, 30, BLUE, "Standard", Pt(595 * du, 650 * du), "MIDDLE_CENTER") >>),
    Stmt("msp.add_text", 345, 0, 0, << DxfText(<<"BMS / DCIM MONITORING">>, 30, BLUE, "Standard", Pt(595 * du, 635 * du), "MIDDLE_CENTER") >>),
    Stmt("add_room_box", 350, 0, 0, add_room_box(530 * du, 470 * du, 130 * du, 110 * du, <<"MEET-ME ROOM">>, <<"R-09">>, MAGENTA)),
    Stmt("msp.add_text", 351, 0, 0, << DxfText(<<"CARRIER ENTRY A (DIVERSE)">>, 30, MAGENTA, "Standard", Pt(540 * du, 540 * du), "LEFT") >>),
    Stmt("msp.add_text", 354, 0, 0, << DxfText(<<"CARRIER ENTRY B (DIVERSE)">>, 30, MAGENTA, "Standard", Pt(540 * du, 525 * du), "LEFT") >>),
    Stmt("msp.add_text", 357, 0, 0, << DxfText(<<"CROSS-CONNECT PANELS">>, 30, MAGENTA, "Standard", Pt(540 * du, 510 * du), "LEFT") >>),
    Stmt("add_room_box", 362, 0, 0, add_room_box(530 * du, 345 * du, 130 * du, 110 * du, <<"COOLING PLANT">>, <<"R-10">>, CYAN)),
    Stmt("add_room_box", 365, 0, 0, add_room_box(530 * du, 250 * du, 130 * du, 80 * du, <<"STAGING & LOADING">>, <<"R-11">>, GRAY)),
    Stmt("add_room_box", 368, 0, 0, add_room_box(370 * du, 720 * du, 110 * du, 60 * du, <<"FIRE CONTROL">>, <<"R-13">>, RED)),
    Stmt("msp.add_text", 369, 0, 0, << DxfText(<<"FACP (REDUNDANT)">>, 30, RED, "Standard", Pt(425 * du, 740 * du), "MIDDLE_CENTER") >>),
    Stmt("msp.add_lwpolyline", 374, 0, 0, << LwPolyline(<<Pt(310 * du, 170 * du), Pt(580 * du, 170 * du), Pt(580 * du, 250 * du), Pt(310 * du, 250 * du), Pt(310 * du, 170 * du)>>, CYAN, 35, "DASHED") >>),
    Stmt("msp.add_text", 378, 0, 0, << DxfText(<<"COOLING YARD (OUTDOOR)">>, 50, CYAN, "TITLE", Pt(315 * du, 240 * du), "LEFT") >>),
    Stmt("add_equipment", 381, 0, 0, add_equipment(320 * du, 185 * du, 60 * du, 40 * du, <<"CHILLER A">>, <<"500kW">>, CYAN, FALSE)),
    Stmt("add_equipment", 382, 0, 0, add_equipment(390 * du, 185 * du, 60 * du, 40 * du, <<"CHILLER B">>, <<"500kW">>, CYAN, FALSE)),
    Stmt("add_equipment", 383, 0, 0, add_equipment(460 * du, 185 * du, 60 * du, 40 * du, <<"CHILLER C">>, <<"(", "N+1", ")">>, CYAN, TRUE)),
    Stmt("msp.add_text", 386, 0, 0, << DxfText(<<"N">>, 80, WHITE, "TITLE", Pt(20 * du, 825 * du), "MIDDLE_CENTER") >>),
    Stmt("msp.add_line", 389, 0, 0, << DxfLine(Pt(20 * du, 815 * du), Pt(20 * du, 830 * du), WHITE, 35, "BYLAYER") >>)
  >>
  \o generate_floor_plan_legend(generate_floor_plan_legend_items)

(* generate_electrical: the calls of the body after the sheet frame, in order: the source *)
(* line of each call, the for statement it is in and its iteration.                        *)
generate_electrical_calls ==
  <<
    Stmt("msp.add_text", 430, 0, 0, << DxfText(<<"DISTRIBUTION PATH A">>, 80, WHITE, "TITLE", Pt(220 * du, 800 * du), "MIDDLE_CENTER") >>),
    Stmt("msp.add_text", 435, 0, 0, << DxfText(<<"DISTRIBUTION PATH B">>, 80, WHITE, "TITLE", Pt(680 * du, 800 * du), "MIDDLE_CENTER") >>),
    Stmt("msp.add_line", 440, 0, 0, << DxfLine(Pt(450 * du, 180 * du), Pt(450 * du, 810 * du), RED, ByLayer, "DASHDOT") >>),
    Stmt("msp.add_text", 441, 0, 0, << DxfTextRotated(<<"CONCURRENT MAINTAINABILITY BOUNDARY">>, 35, RED, "Standard", Pt(443 * du, 400 * du), "LEFT", 90) >>),
    Stmt("msp.add_text", 446, 444, 1, << DxfText(<<"UTILITY FEED A">>, 50, WHITE, "Standard", Pt(220 * du, 775 * du), "MIDDLE_CENTER") >>),
    Stmt("msp.add_text", 449, 444, 1, << DxfText(<<"PLN 20kV 3ph">>, 35, GRAY, "Standard", Pt(220 * du, 765 * du), "MIDDLE_CENTER") >>),
    Stmt("msp.add_text", 452, 444, 1, << DxfText(<<"UF-A">>, 35, CYAN, "Standard", Pt(170 * du, 770 * du), "LEFT") >>),
    Stmt("msp.add_line", 457, 444, 1, << DxfLine(Pt(220 * du, 760 * du), Pt(220 * du, 740 * du), WHITE, 35, "BYLAYER") >>),
    Stmt("add_cb_symbol", 458, 444, 1, add_cb_symbol(220 * du, 745 * du, <<"CB">>, WHITE)),
    Stmt("add_bus_bar", 461, 444, 1, add_bus_bar(100 * du, 720 * du, 240 * du, <<"MV SWITCHGEAR A -- 20kV BUS">>, WHITE, TRUE)),
    Stmt("msp.add_text", 462, 444, 1, << DxfText(<<"MVSG-A">>, 35, CYAN, "Standard", Pt(90 * du, 722 * du), "LEFT") >>),
    Stmt("add_generator_symbol", 468, 444, 1, add_generator_symbol(70 * du, 700 * du, 12 * du, <<"GEN-A">>, <<"2000kVA DIESEL">>, WHITE)),
    Stmt("msp.add_line", 469, 444, 1, << DxfLine(Pt(82 * du, 700 * du), Pt(100 * du, 720 * du), WHITE, 25, "BYLAYER") >>),
    Stmt("msp.add_text", 471, 444, 1, << DxfText(<<"ATS-A">>, 30, GREEN, "Standard", Pt(85 * du, 710 * du), "LEFT") >>),
    Stmt("msp.add_line", 476, 444, 1, << DxfLine(Pt(220 * du, 720 * du), Pt(220 * du, 680 * du), WHITE, 35, "BYLAYER") >>),
    Stmt("add_transformer_symbol", 477, 444, 1, add_transformer_symbol(220 * du, 665 * du, 8 * du, <<"XFMR-A  2000kVA  20kV/415V  Dyn11">>, WHITE)),
    Stmt("msp.add_line", 480, 444, 1, << DxfLine(Pt(220 * du, 652 * du), Pt(220 * du, 620 * du), WHITE, 35, "BYLAYER") >>),
    Stmt("add_bus_bar", 481, 444, 1, add_bus_bar(100 * du, 620 * du, 240 * du, <<"LV MAIN SWITCHBOARD A -- 415V BUS">>, WHITE, TRUE)),
    Stmt("msp.add_text", 482, 444, 1, << DxfText(<<"MSB-A">>, 35, CYAN, "Standard", Pt(90 * du, 622 * du), "LEFT") >>),
    Stmt("msp.add_line", 487, 444, 1, << DxfLine(Pt(220 * du, 620 * du), Pt(220 * du, 570 * du), WHITE, 35, "BYLAYER") >>),
    Stmt("add_cb_symbol", 488, 444, 1, add_cb_symbol(220 * du, 590 * du, <<"CB">>, WHITE)),
    Stmt("add_equipment", 489, 444, 1, add_equipment(175 * du, 520 * du, 90 * du, 45 * du, <<"UPS">>, <<"UPS-A1/A2/A3(", "N+1", ")">>, YELLOW, FALSE)),
    Stmt("msp.add_text", 490, 444, 1, << DxfText(<<"3x400kVA (2+1)">>, 30, GRAY, "Standard", Pt(220 * du, 525 * du), "MIDDLE_CENTER") >>),
    Stmt("msp.add_text", 495, 444, 1, << DxfText(<<"BATT-A">>, 30, RED, "Standard", Pt(150 * du, 540 * du), "LEFT") >>),
    Stmt("msp.add_text", 498, 444, 1, << DxfText(<<"VRLA 15min">>, 25, RED, "Standard", Pt(150 * du, 533 * du), "LEFT") >>),
    Stmt("msp.add_line", 501, 444, 1, << DxfLine(Pt(165 * du, 540 * du), Pt(175 * du, 540 * du), RED, 25, "BYLAYER") >>),
    Stmt("msp.add_line", 505, 444, 1, << DxfLine(Pt(300 * du, 620 * du), Pt(300 * du, 470 * du), GRAY, ByLayer, "DASHED") >>),
    Stmt("msp.add_text", 506, 444, 1, << DxfText(<<"MAINT. BYPASS">>, 30, GRAY, "Standard", Pt(305 * du, 550 * du), "LEFT") >>),
    Stmt("msp.add_line", 511, 444, 1, << DxfLine(Pt(220 * du, 520 * du), Pt(220 * du, 470 * du), WHITE, 35, "BYLAYER") >>),
    Stmt("add_bus_bar", 512, 444, 1, add_bus_bar(100 * du, 470 * du, 240 * du, <<"STS-A OUTPUT BUS -- 415V">>, GREEN, TRUE)),
    Stmt("msp.add_text", 513, 444, 1, << DxfText(<<"STS-A">>, 35, GREEN, "Standard", Pt(90 * du, 472 * du), "LEFT") >>),
    Stmt("msp.add_line", 520, 518, 1, << DxfLine(Pt(140 * du, 470 * du), Pt(140 * du, 420 * du), GREEN, 18, "BYLAYER") >>),
    Stmt("add_equipment", 523, 518, 1, add_equipment(120 * du, 395 * du, 40 * du, 20 * du, <<"PDU-A1">>, <<>>, GREEN, FALSE)),
    Stmt("msp.add_line", 520, 518, 2, << DxfLine(Pt(200 * du, 470 * du), Pt(200 * du, 420 * du), GREEN, 18, "BYLAYER") >>),
    Stmt("add_equipment", 523, 518, 2, add_equipment(180 * du, 395 * du, 40 * du, 20 * du, <<"PDU-A2">>, <<>>, GREEN, FALSE)),
    Stmt("msp.add_line", 520, 518, 3, << DxfLine(Pt(260 * du, 470 * du), Pt(260 * du, 420 * du), GREEN, 18, "BYLAYER") >>),
    Stmt("add_equipment", 523, 518, 3, add_equipment(240 * du, 395 * du, 40 * du, 20 * du, <<"PDU-A3">>, <<>>, GREEN, FALSE)),
    Stmt("msp.add_line", 520, 518, 4, << DxfLine(Pt(320 * du, 470 * du), Pt(320 * du, 420 * du), GREEN, 18, "BYLAYER") >>),
    Stmt("add_equipment", 523, 518, 4, add_equipment(300 * du, 395 * du, 40 * du, 20 * du, <<"PDU-An">>, <<>>, GREEN, TRUE)),
    Stmt("msp.add_text", 446, 444, 2, << DxfText(<<"UTILITY FEED B">>, 50, WHITE, "Standard", Pt(680 * du, 775 * du), "MIDDLE_CENTER") >>),
    Stmt("msp.add_text", 449, 444, 2, << DxfText(<<"PLN 20kV 3ph">>, 35, GRAY, "Standard", Pt(680 * du, 765 * du), "MIDDLE_CENTER") >>),
    Stmt("msp.add_text", 452, 444, 2, << DxfText(<<"UF-B">>, 35, CYAN, "Standard", Pt(630 * du, 770 * du), "LEFT") >>),
    Stmt("msp.add_line", 457, 444, 2, << DxfLine(Pt(680 * du, 760 * du), Pt(680 * du, 740 * du), WHITE, 35, "BYLAYER") >>),
    Stmt("add_cb_symbol", 458, 444, 2, add_cb_symbol(680 * du, 745 * du, <<"CB">>, WHITE)),
    Stmt("add_bus_bar", 461, 444, 2, add_bus_bar(560 * du, 720 * du, 240 * du, <<"MV SWITCHGEAR B -- 20kV BUS">>, WHITE, TRUE)),
    Stmt("msp.add_text", 462, 444, 2, << DxfText(<<"MVSG-B">>, 35, CYAN, "Standard", Pt(550 * du, 722 * du), "LEFT") >>),
    Stmt("add_generator_symbol", 468, 444, 2, add_generator_symbol(830 * du, 700 * du, 12 * du, <<"GEN-B">>, <<"2000kVA DIESEL">>, WHITE)),
    Stmt("msp.add_line", 469, 444, 2, << DxfLine(Pt(842 * du, 700 * du), Pt(800 * du, 720 * du), WHITE, 25, "BYLAYER") >>),
    Stmt("msp.add_text", 471, 444, 2, << DxfText(<<"ATS-B">>, 30, GREEN, "Standard", Pt(800 * du, 710 * du), "LEFT") >>),
    Stmt("msp.add_line", 476, 444, 2, << DxfLine(Pt(680 * du, 720 * du), Pt(680 * du, 680 * du), WHITE, 35, "BYLAYER") >>),
    Stmt("add_transformer_symbol", 477, 444, 2, add_transformer_symbol(680 * du, 665 * du, 8 * du, <<"XFMR-B  2000kVA  20kV/415V  Dyn11">>, WHITE)),
    Stmt("msp.add_line", 480, 444, 2, << DxfLine(Pt(680 * du, 652 * du), Pt(680 * du, 620 * du), WHITE, 35, "BYLAYER") >>),
    Stmt("add_bus_bar", 481, 444, 2, add_bus_bar(560 * du, 620 * du, 240 * du, <<"LV MAIN SWITCHBOARD B -- 415V BUS">>, WHITE, TRUE)),
    Stmt("msp.add_text", 482, 444, 2, << DxfText(<<"MSB-B">>, 35, CYAN, "Standard", Pt(550 * du, 622 * du), "LEFT") >>),
    Stmt("msp.add_line", 487, 444, 2, << DxfLine(Pt(680 * du, 620 * du), Pt(680 * du, 570 * du), WHITE, 35, "BYLAYER") >>),
    Stmt("add_cb_symbol", 488, 444, 2, add_cb_symbol(680 * du, 590 * du, <<"CB">>, WHITE)),
    Stmt("add_equipment", 489, 444, 2, add_equipment(635 * du, 520 * du, 90 * du, 45 * du, <<"UPS">>, <<"UPS-B1/B2/B3(", "N+1", ")">>, YELLOW, FALSE)),
    Stmt("msp.add_text", 490, 444, 2, << DxfText(<<"3x400kVA (2+1)">>, 30, GRAY, "Standard", Pt(680 * du, 525 * du), "MIDDLE_CENTER") >>),
    Stmt("msp.add_text", 495, 444, 2, << DxfText(<<"BATT-B">>, 30, RED, "Standard", Pt(610 * du, 540 * du), "LEFT") >>),
    Stmt("msp.add_text", 498, 444, 2, << DxfText(<<"VRLA 15min">>, 25, RED, "Standard", Pt(610 * du, 533 * du), "LEFT") >>),
    Stmt("msp.add_line", 501, 444, 2, << DxfLine(Pt(625 * du, 540 * du), Pt(635 * du, 540 * du), RED, 25, "BYLAYER") >>),
    Stmt("msp.add_line", 505, 444, 2, << DxfLine(Pt(760 * du, 620 * du), Pt(760 * du, 470 * du), GRAY, ByLayer, "DASHED") >>),
    Stmt("msp.add_text", 506, 444, 2, << DxfText(<<"MAINT. BYPASS">>, 30, GRAY, "Standard", Pt(765 * du, 550 * du), "LEFT") >>),
    Stmt("msp.add_line", 511, 444, 2, << DxfLine(Pt(680 * du, 520 * du), Pt(680 * du, 470 * du), WHITE, 35, "BYLAYER") >>),
    Stmt("add_bus_bar", 512, 444, 2, add_bus_bar(560 * du, 470 * du, 240 * du, <<"STS-B OUTPUT BUS -- 415V">>, GREEN, TRUE)),
    Stmt("msp.add_text", 513, 444, 2, << DxfText(<<"STS-B">>, 35, GREEN, "Standard", Pt(550 * du, 472 * du), "LEFT") >>),
    Stmt("msp.add_line", 520, 518, 6, << DxfLine(Pt(600 * du, 470 * du), Pt(600 * du, 420 * du), GREEN, 18, "BYLAYER") >>),
    Stmt("add_equipment", 523, 518, 6, add_equipment(580 * du, 395 * du, 40 * du, 20 * du, <<"PDU-B1">>, <<>>, GREEN, FALSE)),
    Stmt("msp.add_line", 520, 518, 7, << DxfLine(Pt(660 * du, 470 * du), Pt(660 * du, 420 * du), GREEN, 18, "BYLAYER") >>),
    Stmt("add_equipment", 523, 518, 7, add_equipment(640 * du, 395 * du, 40 * du, 20 * du, <<"PDU-B2">>, <<>>, GREEN, FALSE)),
    Stmt("msp.add_line", 520, 518, 8, << DxfLine(Pt(720 * du, 470 * du), Pt(720 * du, 420 * du), GREEN, 18, "BYLAYER") >>),
    Stmt("add_equipment", 523, 518, 8, add_equipment(700 * du, 395 * du, 40 * du, 20 * du, <<"PDU-B3">>, <<>>, GREEN, FALSE)),
    Stmt("msp.add_line", 520, 518, 9, << DxfLine(Pt(780 * du, 470 * du), Pt(780 * du, 420 * du), GREEN, 18, "BYLAYER") >>),
    Stmt("add_equipment", 523, 518, 9, add_equipment(760 * du, 395 * du, 40 * du, 20 * du, <<"PDU-Bn">>, <<>>, GREEN, TRUE)),
    Stmt("add_generator_symbol", 526, 0, 0, add_generator_symbol(450 * du, 700 * du, 12 * du, <<"GEN-C (", "N+1", " SPARE)">>, <<"2000kVA DIESEL">>, WHITE)),
    Stmt("msp.add_line", 527, 0, 0, << DxfLine(Pt(438 * du, 700 * du), Pt(340 * du, 720 * du), WHITE, 18, "DASHED") >>),
    Stmt("msp.add_line", 528, 0, 0, << DxfLine(Pt(462 * du, 700 * du), Pt(560 * du, 720 * du), WHITE, 18, "DASHED") >>),
    Stmt("msp.add_lwpolyline", 531, 0, 0, << LwPolyline(<<Pt(60 * du, 200 * du), Pt(840 * du, 200 * du), Pt(840 * du, 370 * du), Pt(60 * du, 370 * du), Pt(60 * du, 200 * du)>>, WHITE, 25, "DASHED") >>),
    Stmt("msp.add_text", 535, 0, 0, << DxfText(<<"IT EQUIPMENT -- DUAL-CORDED SERVERS (FEED A + FEED B)">>, 60, WHITE, "TITLE", Pt(450 * du, 355 * du), "MIDDLE_CENTER") >>),
    Stmt("msp.add_lwpolyline", 544, 541, 1, << LwPolyline(<<Pt(120 * du, 250 * du), Pt(160 * du, 250 * du), Pt(160 * du, 280 * du), Pt(120 * du, 280 * du), Pt(120 * du, 250 * du)>>, WHITE, 18, "BYLAYER") >>),
    Stmt("msp.add_text", 548, 541, 1, << DxfText(<<"RACK">>, 30, WHITE, "Standard", Pt(140 * du, 265 * du), "MIDDLE_CENTER") >>),
    Stmt("msp.add_lwpolyline", 544, 541, 2, << LwPolyline(<<Pt(220 * du, 250 * du), Pt(260 * du, 250 * du), Pt(260 * du, 280 * du), Pt(220 * du, 280 * du), Pt(220 * du, 250 * du)>>, WHITE, 18, "BYLAYER") >>),
    Stmt("msp.add_text", 548, 541, 2, << DxfText(<<"RACK">>, 30, WHITE, "Standard", Pt(240 * du, 265 * du), "MIDDLE_CENTER") >>),
    Stmt("msp.add_lwpolyline", 544, 541, 3, << LwPolyline(<<Pt(320 * du, 250 * du), Pt(360 * du, 250 * du), Pt(360 * du, 280 * du), Pt(320 * du, 280 * du), Pt(320 * du, 250 * du)>>, WHITE, 18, "BYLAYER") >>),
    Stmt("msp.add_text", 548, 541, 3, << DxfText(<<"RACK">>, 30, WHITE, "Standard", Pt(340 * du, 265 * du), "MIDDLE_CENTER") >>),
    Stmt("msp.add_lwpolyline", 544, 541, 4, << LwPolyline(<<Pt(420 * du, 250 * du), Pt(460 * du, 250 * du), Pt(460 * du, 280 * du), Pt(420 * du, 280 * du), Pt(420 * du, 250 * du)>>, WHITE, 18, "BYLAYER") >>),
    Stmt("msp.add_text", 548, 541, 4, << DxfText(<<"RACK">>, 30, WHITE, "Standard", Pt(440 * du, 265 * du), "MIDDLE_CENTER") >>),
    Stmt("msp.add_lwpolyline", 544, 541, 5, << LwPolyline(<<Pt(520 * du, 250 * du), Pt(560 * du, 250 * du), Pt(560 * du, 280 * du), Pt(520 * du, 280 * du), Pt(520 * du, 250 * du)>>, WHITE, 18, "BYLAYER") >>),
    Stmt("msp.add_text", 548, 541, 5, << DxfText(<<"RACK">>, 30, WHITE, "Standard", Pt(540 * du, 265 * du), "MIDDLE_CENTER") >>),
    Stmt("msp.add_lwpolyline", 544, 541, 6, << LwPolyline(<<Pt(620 * du, 250 * du), Pt(660 * du, 250 * du), Pt(660 * du, 280 * du), Pt(620 * du, 280 * du), Pt(620 * du, 250 * du)>>, WHITE, 18, "BYLAYER") >>),
    Stmt("msp.add_text", 548, 541, 6, << DxfText(<<"RACK">>, 30, WHITE, "Standard", Pt(640 * du, 265 * du), "MIDDLE_CENTER") >>),
    Stmt("msp.add_text", 552, 0, 0, << DxfText(<<"FEED A <-">>, 40, GREEN, "Standard", Pt(120 * du, 235 * du), "LEFT") >>),
    Stmt("msp.add_text", 553, 0, 0, << DxfText(<<"-> FEED B">>, 40, GREEN, "Standard", Pt(760 * du, 235 * du), "LEFT") >>),
    Stmt("msp.add_text", 557, 0, 0, << DxfText(<<"GENERAL NOTES">>, 60, WHITE, "TITLE", Pt(450 * du, 180 * du), "MIDDLE_CENTER") >>),
    Stmt("msp.add_text", 572, 571, 1, << DxfText(<<"1. ALL ELECTRICAL PER IEC 60364. SYMBOLS PER IEC 60617.">>, 30, WHITE, "Standard", Pt(60 * du, 168 * du), "LEFT") >>),
    Stmt("msp.add_text", 572, 571, 2, << DxfText(<<"2. SYSTEM: 20kV(MV)/415V(LV), 3ph+N+E, 50Hz.">>, 30, WHITE, "Standard", Pt(60 * du, 160 * du), "LEFT") >>),
    Stmt("msp.add_text", 572, 571, 3, << DxfText(<<"3. DUAL INDEPENDENT UTILITY FEEDS FROM SEPARATE PLN SUBSTATIONS.">>, 30, WHITE, "Standard", Pt(60 * du, 152 * du), "LEFT") >>),
    Stmt("msp.add_text", 572, 571, 4, << DxfText(<<"4. GENERATORS: 2", "N+1", " (GEN-A PATH A, GEN-B PATH B, GEN-C SHARED ", "N+1", ").">>, 30, WHITE, "Standard", Pt(60 * du, 144 * du), "LEFT") >>),
    Stmt("msp.add_text", 572, 571, 5, << DxfText(<<"5. UPS: ", "N+1", " PER PATH (3 MODULES: 2+1). BATTERY: 15 MIN RUNTIME.">>, 30, WHITE, "Standard", Pt(60 * du, 136 * du), "LEFT") >>),
    Stmt("msp.add_text", 572, 571, 6, << DxfText(<<"6. STS: <4ms TRANSFER. ATS: <10s TO GENERATOR.">>, 30, WHITE, "Standard", Pt(60 * du, 128 * du), "LEFT") >>),
    Stmt("msp.add_text", 572, 571, 7, << DxfText(<<"7. ALL IT EQUIPMENT DUAL-CORDED A+B FEEDS.">>, 30, WHITE, "Standard", Pt(60 * du, 120 * du), "LEFT") >>),
    Stmt("msp.add_text", 572, 571, 8, << DxfText(<<"8. MAINTENANCE BYPASS FOR CONCURRENT MAINTAINABILITY.">>, 30, WHITE, "Standard", Pt(60 * du, 112 * du), "LEFT") >>),
    Stmt("msp.add_text", 572, 571, 9, << DxfText(<<"9. TOTAL CRITICAL IT LOAD: 1.6MW (800kW/PATH). PUE TARGET <=1.4.">>, 30, WHITE, "Standard", Pt(60 * du, 104 * du), "LEFT") >>)
  >>

(* generate_network: the calls of the body after the sheet frame, in order: the source *)
(* line of each call, the for statement it is in and its iteration.                     *)
generate_network_calls ==
  <<
    Stmt("msp.add_text", 604, 603, 1, << DxfText(<<"WAN / CARRIER ZONE">>, 50, GRAY, "Standard", Pt(20 * du, 790 * du), "LEFT") >>),
    Stmt("msp.add_line", 605, 603, 1, << DxfLine(Pt(20 * du, 785 * du), Pt(570 * du, 785 * du), GRAY, ByLayer, "DASHED") >>),
    Stmt("msp.add_text", 604, 603, 2, << DxfText(<<"DMZ / PERIMETER ZONE">>, 50, GRAY, "Standard", Pt(20 * du, 650 * du), "LEFT") >>),
    Stmt("msp.add_line", 605, 603, 2, << DxfLine(Pt(20 * du, 645 * du), Pt(570 * du, 645 * du), GRAY, ByLayer, "DASHED") >>),
    Stmt("msp.add_text", 604, 603, 3, << DxfText(<<"CORE / DISTRIBUTION ZONE">>, 50, GRAY, "Standard", Pt(20 * du, 480 * du), "LEFT") >>),
    Stmt("msp.add_line", 605, 603, 3, << DxfLine(Pt(20 * du, 475 * du), Pt(570 * du, 475 * du), GRAY, ByLayer, "DASHED") >>),
    Stmt("msp.add_text", 604, 603, 4, << DxfText(<<"ACCESS / SERVER ZONE">>, 50, GRAY, "Standard", Pt(20 * du, 310 * du), "LEFT") >>),
    Stmt("msp.add_line", 605, 603, 4, << DxfLine(Pt(20 * du, 305 * du), Pt(570 * du, 305 * du), GRAY, ByLayer, "DASHED") >>),
    Stmt("msp.add_line", 609, 0, 0, << DxfLine(Pt(300 * du, 200 * du), Pt(300 * du, 810 * du), RED, ByLayer, "DASHDOT") >>),
    Stmt("msp.add_circle", 613, 611, 1, << DxfCircle(Pt(160 * du, 770 * du), 25 * du, BLUE, ByLayer) >>),
    Stmt("msp.add_text", 614, 611, 1, << DxfText(<<"ISP A">>, 50, BLUE, "TITLE", Pt(160 * du, 775 * du), "MIDDLE_CENTER") >>),
    Stmt("msp.add_text", 618, 611, 1, << DxfText(<<"(PRIMARY CARRIER)">>, 30, BLUE, "Standard", Pt(160 * du, 760 * du), "MIDDLE_CENTER") >>),
    Stmt("msp.add_line", 623, 611, 1, << DxfLine(Pt(160 * du, 745 * du), Pt(160 * du, 720 * du), WHITE, 25, "BYLAYER") >>),
    Stmt("msp.add_circle", 613, 611, 2, << DxfCircle(Pt(440 * du, 770 * du), 25 * du, BLUE, ByLayer) >>),
    Stmt("msp.add_text", 614, 611, 2, << DxfText(<<"ISP B">>, 50, BLUE, "TITLE", Pt(440 * du, 775 * du), "MIDDLE_CENTER") >>),
    Stmt("msp.add_text", 618, 611, 2, << DxfText(<<"(SECONDARY CARRIER)">>, 30, BLUE, "Standard", Pt(440 * du, 760 * du), "MIDDLE_CENTER") >>),
    Stmt("msp.add_line", 623, 611, 2, << DxfLine(Pt(440 * du, 745 * du), Pt(440 * du, 720 * du), WHITE, 25, "BYLAYER") >>),
    Stmt("add_equipment", 626, 0, 0, add_equipment(80 * du, 710 * du, 440 * du, 25 * du, <<"MEET-ME ROOM (MMR) -- DIVERSE CARRIER ENTRIES">>, <<>>, MAGENTA, FALSE)),
    Stmt("msp.add_line", 631, 628, 1, << DxfLine(Pt(160 * du, 700 * du), Pt(160 * du, 670 * du), WHITE, 25, "BYLAYER") >>),
    Stmt("add_equipment", 632, 628, 1, add_equipment(110 * du, 635 * du, 100 * du, 35 * du, <<"BORDER ROUTER A">>, <<"BGP/OSPF 10GbE">>, YELLOW, FALSE)),
    Stmt("msp.add_line", 635, 628, 1, << DxfLine(Pt(160 * du, 635 * du), Pt(160 * du, 615 * du), WHITE, 25, "BYLAYER") >>),
    Stmt("add_equipment", 636, 628, 1, add_equipment(110 * du, 580 * du, 100 * du, 35 * du, <<"FIREWALL A">>, <<"HA ACTIVE">>, RED, FALSE)),
    Stmt("msp.add_line", 641, 628, 1, << DxfLine(Pt(210 * du, 600 * du), Pt(390 * du, 600 * du), RED, ByLayer, "DASHED") >>),
    Stmt("msp.add_text", 643, 628, 1, << DxfText(<<"HA HEARTBEAT">>, 30, RED, "Standard", Pt(300 * du, 604 * du), "MIDDLE_CENTER") >>),
    Stmt("msp.add_line", 648, 628, 1, << DxfLine(Pt(160 * du, 580 * du), Pt(160 * du, 550 * du), WHITE, 25, "BYLAYER") >>),
    Stmt("add_equipment", 649, 628, 1, add_equipment(100 * du, 505 * du, 120 * du, 45 * du, <<"CORE SWITCH A">>, <<"L3 OSPF/BGP  40GbE">>, GREEN, FALSE)),
    Stmt("msp.add_line", 654, 628, 1, << DxfLine(Pt(220 * du, 530 * du), Pt(380 * du, 530 * du), GREEN, 25, "DASHED") >>),
    Stmt("msp.add_text", 656, 628, 1, << DxfText(<<"CROSS-CONNECT (40GbE)">>, 30, GREEN, "Standard", Pt(300 * du, 535 * du), "MIDDLE_CENTER") >>),
    Stmt("msp.add_line", 661, 628, 1, << DxfLine(Pt(160 * du, 505 * du), Pt(160 * du, 485 * du), WHITE, 25, "BYLAYER") >>),
    Stmt("add_equipment", 662, 628, 1, add_equipment(105 * du, 455 * du, 110 * du, 30 * du, <<"AGGREGATION A">>, <<"L2/L3 10GbE">>, BLUE, FALSE)),
    Stmt("msp.add_line", 667, 665, 1, << DxfLine(Pt(160 * du, 455 * du), Pt(95 * du, 430 * du), WHITE, 18, "BYLAYER") >>),
    Stmt("add_equipment", 669, 665, 1, add_equipment(70 * du, 410 * du, 50 * du, 20 * du, <<"ToR-A1">>, <<>>, GRAY, FALSE)),
    Stmt("msp.add_line", 672, 665, 1, << DxfLine(Pt(95 * du, 410 * du), Pt(95 * du, 395 * du), WHITE, 13, "BYLAYER") >>),
    Stmt("msp.add_lwpolyline", 675, 665, 1, << LwPolyline(<<Pt(70 * du, 375 * du), Pt(120 * du, 375 * du), Pt(120 * du, 395 * du), Pt(70 * du, 395 * du), Pt(70 * du, 375 * du)>>, WHITE, 25, "BYLAYER") >>),
    Stmt("msp.add_text", 680, 665, 1, << DxfText(<<"ROW A">>, 30, WHITE, "Standard", Pt(95 * du, 385 * du), "MIDDLE_CENTER") >>),
    Stmt("msp.add_line", 667, 665, 2, << DxfLine(Pt(160 * du, 455 * du), Pt(160 * du, 430 * du), WHITE, 18, "BYLAYER") >>),
    Stmt("add_equipment", 669, 665, 2, add_equipment(135 * du, 410 * du, 50 * du, 20 * du, <<"ToR-A2">>, <<>>, GRAY, FALSE)),
    Stmt("msp.add_line", 672, 665, 2, << DxfLine(Pt(160 * du, 410 * du), Pt(160 * du, 395 * du), WHITE, 13, "BYLAYER") >>),
    Stmt("msp.add_lwpolyline", 675, 665, 2, << LwPolyline(<<Pt(135 * du, 375 * du), Pt(185 * du, 375 * du), Pt(185 * du, 395 * du), Pt(135 * du, 395 * du), Pt(135 * du, 375 * du)>>, WHITE, 25, "BYLAYER") >>),
    Stmt("msp.add_text", 680, 665, 2, << DxfText(<<"ROW B">>, 30, WHITE, "Standard", Pt(160 * du, 385 * du), "MIDDLE_CENTER") >>),
    Stmt("msp.add_line", 667, 665, 3, << DxfLine(Pt(160 * du, 455 * du), Pt(225 * du, 430 * du), WHITE, 18, "BYLAYER") >>),
    Stmt("add_equipment", 669, 665, 3, add_equipment(200 * du, 410 * du, 50 * du, 20 * du, <<"ToR-A3">>, <<>>, GRAY, FALSE)),
    Stmt("msp.add_line", 672, 665, 3, << DxfLine(Pt(225 * du, 410 * du), Pt(225 * du, 395 * du), WHITE, 13, "BYLAYER") >>),
    Stmt("msp.add_lwpolyline", 675, 665, 3, << LwPolyline(<<Pt(200 * du, 375 * du), Pt(250 * du, 375 * du), Pt(250 * du, 395 * du), Pt(200 * du, 395 * du), Pt(200 * du, 375 * du)>>, WHITE, 25, "BYLAYER") >>),
    Stmt("msp.add_text", 680, 665, 3, << DxfText(<<"ROW C">>, 30, WHITE, "Standard", Pt(225 * du, 385 * du), "MIDDLE_CENTER") >>),
    Stmt("msp.add_line", 631, 628, 2, << DxfLine(Pt(440 * du, 700 * du), Pt(440 * du, 670 * du), WHITE, 25, "BYLAYER") >>),
    Stmt("add_equipment", 632, 628, 2, add_equipment(390 * du, 635 * du, 100 * du, 35 * du, <<"BORDER ROUTER B">>, <<"BGP/OSPF 10GbE">>, YELLOW, FALSE)),
    Stmt("msp.add_line", 635, 628, 2, << DxfLine(Pt(440 * du, 635 * du), Pt(440 * du, 615 * du), WHITE, 25, "BYLAYER") >>),
    Stmt("add_equipment", 636, 628, 2, add_equipment(390 * du, 580 * du, 100 * du, 35 * du, <<"FIREWALL B">>, <<"HA STANDBY">>, RED, FALSE)),
    Stmt("msp.add_line", 648, 628, 2, << DxfLine(Pt(440 * du, 580 * du), Pt(440 * du, 550 * du), WHITE, 25, "BYLAYER") >>),
    Stmt("add_equipment", 649, 628, 2, add_equipment(380 * du, 505 * du, 120 * du, 45 * du, <<"CORE SWITCH B">>, <<"L3 OSPF/BGP  40GbE">>, GREEN, FALSE)),
    Stmt("msp.add_line", 661, 628, 2, << DxfLine(Pt(440 * du, 505 * du), Pt(440 * du, 485 * du), WHITE, 25, "BYLAYER") >>),
    Stmt("add_equipment", 662, 628, 2, add_equipment(385 * du, 455 * du, 110 * du, 30 * du, <<"AGGREGATION B">>, <<"L2/L3 10GbE">>, BLUE, FALSE)),
    Stmt("msp.add_line", 667, 665, 5, << DxfLine(Pt(440 * du, 455 * du), Pt(375 * du, 430 * du), WHITE, 18, "BYLAYER") >>),
    Stmt("add_equipment", 669, 665, 5, add_equipment(350 * du, 410 * du, 50 * du, 20 * du, <<"ToR-B1">>, <<>>, GRAY, FALSE)),
    Stmt("msp.add_line", 672, 665, 5, << DxfLine(Pt(375 * du, 410 * du), Pt(375 * du, 395 * du), WHITE, 13, "BYLAYER") >>),
    Stmt("msp.add_lwpolyline", 675, 665, 5, << LwPolyline(<<Pt(350 * du, 375 * du), Pt(400 * du, 375 * du), Pt(400 * du, 395 * du), Pt(350 * du, 395 * du), Pt(350 * du, 375 * du)>>, WHITE, 25, "BYLAYER") >>),
    Stmt("msp.add_text", 680, 665, 5, << DxfText(<<"ROW D">>, 30, WHITE, "Standard", Pt(375 * du, 385 * du), "MIDDLE_CENTER") >>),
    Stmt("msp.add_line", 667, 665, 6, << DxfLine(Pt(440 * du, 455 * du), Pt(440 * du, 430 * du), WHITE, 18, "BYLAYER") >>),
    Stmt("add_equipment", 669, 665, 6, add_equipment(415 * du, 410 * du, 50 * du, 20 * du, <<"ToR-B2">>, <<>>, GRAY, FALSE)),
    Stmt("msp.add_line", 672, 665, 6, << DxfLine(Pt(440 * du, 410 * du), Pt(440 * du, 395 * du), WHITE, 13, "BYLAYER") >>),
    Stmt("msp.add_lwpolyline", 675, 665, 6, << LwPolyline(<<Pt(415 * du, 375 * du), Pt(465 * du, 375 * du), Pt(465 * du, 395 * du), Pt(415 * du, 395 * du), Pt(415 * du, 375 * du)>>, WHITE, 25, "BYLAYER") >>),
    Stmt("msp.add_text", 680, 665, 6, << DxfText(<<"ROW E">>, 30, WHITE, "Standard", Pt(440 * du, 385 * du), "MIDDLE_CENTER") >>),
    Stmt("msp.add_line", 667, 665, 7, << DxfLine(Pt(440 * du, 455 * du), Pt(505 * du, 430 * du), WHITE, 18, "BYLAYER") >>),
    Stmt("add_equipment", 669, 665, 7, add_equipment(480 * du, 410 * du, 50 * du, 20 * du, <<"ToR-B3">>, <<>>, GRAY, FALSE)),
    Stmt("msp.add_line", 672, 665, 7, << DxfLine(Pt(505 * du, 410 * du), Pt(505 * du, 395 * du), WHITE, 13, "BYLAYER") >>),
    Stmt("msp.add_lwpolyline", 675, 665, 7, << LwPolyline(<<Pt(480 * du, 375 * du), Pt(530 * du, 375 * du), Pt(530 * du, 395 * du), Pt(480 * du, 395 * du), Pt(480 * du, 375 * du)>>, WHITE, 25, "BYLAYER") >>),
    Stmt("msp.add_text", 680, 665, 7, << DxfText(<<"ROW F">>, 30, WHITE, "Standard", Pt(505 * du, 385 * du), "MIDDLE_CENTER") >>),
    Stmt("add_equipment", 685, 0, 0, add_equipment(250 * du, 515 * du, 100 * du, 30 * du, <<"OUT-OF-BAND MGMT">>, <<"IPMI/iLO/iDRAC">>, YELLOW, TRUE)),
    Stmt("msp.add_text", 688, 0, 0, << DxfText(<<"ALL SERVERS DUAL-HOMED (PATH A + PATH B)">>, 40, RED, "Standard", Pt(300 * du, 365 * du), "MIDDLE_CENTER") >>)
  >>
  \o generate_network_legend(generate_network_legend_items)

(* generate_cooling: the calls of the body after the sheet frame, in order: the source *)
(* line of each call, the for statement it is in and its iteration.                     *)
generate_cooling_calls ==
  <<
    Stmt("msp.add_lwpolyline", 733, 0, 0, << LwPolyline(<<Pt(30 * du, 600 * du), Pt(560 * du, 600 * du), Pt(560 * du, 810 * du), Pt(30 * du, 810 * du), Pt(30 * du, 600 * du)>>, GRAY, 25, "DASHED") >>),
    Stmt("msp.add_text", 737, 0, 0, << DxfText(<<"OUTDOOR -- COOLING YARD">>, 50, GRAY, "Standard", Pt(35 * du, 800 * du), "LEFT") >>),
    Stmt("add_equipment", 742, 740, 1, add_equipment(50 * du, 730 * du, 90 * du, 50 * du, <<"CT-A">>, <<"INDUCED DRAFT\nCOUNTERFLOW">>, CYAN, FALSE)),
    Stmt("add_equipment", 742, 740, 2, add_equipment(160 * du, 730 * du, 90 * du, 50 * du, <<"CT-B">>, <<"INDUCED DRAFT\nCOUNTERFLOW">>, CYAN, FALSE)),
    Stmt("add_equipment", 742, 740, 3, add_equipment(270 * du, 730 * du, 90 * du, 50 * du, <<"CT-C (", "N+1", ")">>, <<"INDUCED DRAFT\nCOUNTERFLOW">>, CYAN, TRUE)),
    Stmt("add_equipment", 749, 745, 1, add_equipment(400 * du, 730 * du, 130 * du, 45 * du, <<"CHILLER A">>, <<"WATER-COOLED 500kW">>, GREEN, FALSE)),
    Stmt("add_equipment", 749, 745, 2, add_equipment(400 * du, 670 * du, 130 * du, 45 * du, <<"CHILLER B">>, <<"WATER-COOLED 500kW">>, GREEN, FALSE)),
    Stmt("add_equipment", 749, 745, 3, add_equipment(400 * du, 610 * du, 130 * du, 45 * du, <<"CHILLER C (", "N+1", ")">>, <<"WATER-COOLED 500kW">>, GREEN, TRUE)),
    Stmt("msp.add_text", 752, 0, 0, << DxfText(<<"CONDENSER WATER LOOP ->">>, 35, CYAN, "Standard", Pt(300 * du, 760 * du), "LEFT") >>),
    Stmt("msp.add_line", 753, 0, 0, << DxfLine(Pt(360 * du, 755 * du), Pt(400 * du, 755 * du), CYAN, 25, "BYLAYER") >>),
    Stmt("msp.add_text", 756, 0, 0, << DxfText(<<"INDOOR -- MECHANICAL ROOM">>, 50, GRAY, "Standard", Pt(35 * du, 575 * du), "LEFT") >>),
    Stmt("add_bus_bar", 757, 0, 0, add_bus_bar(30 * du, 540 * du, 540 * du, <<"PRIMARY CHILLED WATER SUPPLY -- 7degC / 12degC (SUPPLY/RETURN)">>, CYAN, TRUE)),
    Stmt("add_equipment", 762, 760, 1, add_equipment(80 * du, 545 * du, 60 * du, 22 * du, <<"PP-A">>, <<>>, CYAN, FALSE)),
    Stmt("add_equipment", 762, 760, 2, add_equipment(160 * du, 545 * du, 60 * du, 22 * du, <<"PP-B">>, <<>>, CYAN, FALSE)),
    Stmt("add_equipment", 762, 760, 3, add_equipment(240 * du, 545 * du, 60 * du, 22 * du, <<"PP-C (", "N+1", ")">>, <<>>, CYAN, TRUE)),
    Stmt("msp.add_text", 763, 0, 0, << DxfText(<<"PRIMARY CHW PUMPS">>, 30, CYAN, "Standard", Pt(80 * du, 570 * du), "LEFT") >>),
    Stmt("add_bus_bar", 766, 0, 0, add_bus_bar(30 * du, 460 * du, 540 * du, <<"SECONDARY CHW DISTRIBUTION -- TO CRAH UNITS">>, GREEN, TRUE)),
    Stmt("add_equipment", 771, 769, 1, add_equipment(340 * du, 465 * du, 60 * du, 22 * du, <<"SP-A">>, <<>>, GREEN, FALSE)),
    Stmt("add_equipment", 771, 769, 2, add_equipment(420 * du, 465 * du, 60 * du, 22 * du, <<"SP-B">>, <<>>, GREEN, FALSE)),
    Stmt("add_equipment", 771, 769, 3, add_equipment(500 * du, 465 * du, 60 * du, 22 * du, <<"SP-C (", "N+1", ")">>, <<>>, GREEN, TRUE)),
    Stmt("msp.add_line", 774, 0, 0, << DxfLine(Pt(300 * du, 540 * du), Pt(300 * du, 460 * du), WHITE, 25, "BYLAYER") >>),
    Stmt("msp.add_text", 777, 0, 0, << DxfText(<<"DATA HALL -- HOT/COLD AISLE CONTAINMENT">>, 50, GRAY, "Standard", Pt(35 * du, 420 * du), "LEFT") >>),
    Stmt("add_equipment", 783, 780, 1, add_equipment(50 * du, 350 * du, 110 * du, 55 * du, <<"CRAH-1">>, <<"DOWNFLOW\n150kW COOLING">>, RED, FALSE)),
    Stmt("msp.add_line", 784, 780, 1, << DxfLine(Pt(105 * du, 460 * du), Pt(105 * du, 405 * du), GREEN, 18, "BYLAYER") >>),
    Stmt("add_equipment", 783, 780, 2, add_equipment(180 * du, 350 * du, 110 * du, 55 * du, <<"CRAH-2">>, <<"DOWNFLOW\n150kW COOLING">>, RED, FALSE)),
    Stmt("msp.add_line", 784, 780, 2, << DxfLine(Pt(235 * du, 460 * du), Pt(235 * du, 405 * du), GREEN, 18, "BYLAYER") >>),
    Stmt("add_equipment", 783, 780, 3, add_equipment(310 * du, 350 * du, 110 * du, 55 * du, <<"CRAH-3">>, <<"DOWNFLOW\n150kW COOLING">>, RED, FALSE)),
    Stmt("msp.add_line", 784, 780, 3, << DxfLine(Pt(365 * du, 460 * du), Pt(365 * du, 405 * du), GREEN, 18, "BYLAYER") >>),
    Stmt("add_equipment", 783, 780, 4, add_equipment(440 * du, 350 * du, 110 * du, 55 * du, <<"CRAH-4 (", "N+1", ")">>, <<"DOWNFLOW\n150kW COOLING">>, RED, TRUE)),
    Stmt("msp.add_line", 784, 780, 4, << DxfLine(Pt(495 * du, 460 * du), Pt(495 * du, 405 * du), GREEN, 18, "BYLAYER") >>),
    Stmt("msp.add_lwpolyline", 787, 0, 0, << LwPolyline(<<Pt(30 * du, 200 * du), Pt(570 * du, 200 * du), Pt(570 * du, 340 * du), Pt(30 * du, 340 * du), Pt(30 * du, 200 * du)>>, GRAY, 18, "BYLAYER") >>),
    Stmt("msp.add_text", 791, 0, 0, << DxfText(<<"AIRFLOW PATTERN -- HOT/COLD AISLE CONTAINMENT">>, 50, WHITE, "TITLE", Pt(300 * du, 330 * du), "MIDDLE_CENTER") >>),
    Stmt("msp.add_text", 795, 0, 0, << DxfText(<<"COLD AISLE -- SUPPLY AIR 18-22degC (ASHRAE A1)">>, 35, BLUE, "Standard", Pt(300 * du, 310 * du), "MIDDLE_CENTER") >>),
    Stmt("msp.add_text", 799, 0, 0, << DxfText(<<"v v v v v v v v v v v v v v v v">>, 40, BLUE, "Standard", Pt(300 * du, 298 * du), "MIDDLE_CENTER") >>),
    Stmt("msp.add_lwpolyline", 803, 0, 0, << LwPolyline(<<Pt(50 * du, 275 * du), Pt(550 * du, 275 * du), Pt(550 * du, 290 * du), Pt(50 * du, 290 * du), Pt(50 * du, 275 * du)>>, WHITE, 35, "BYLAYER") >>),
    Stmt("msp.add_text", 807, 0, 0, << DxfText(<<"ROW A  |  ROW B  (SERVER RACKS)">>, 30, WHITE, "Standard", Pt(300 * du, 282 * du), "MIDDLE_CENTER") >>),
    Stmt("msp.add_text", 810, 0, 0, << DxfText(<<"HOT AISLE (CONTAINED) -- EXHAUST 35-40degC -> RETURN TO CRAH">>, 35, RED, "Standard", Pt(300 * du, 265 * du), "MIDDLE_CENTER") >>),
    Stmt("msp.add_text", 814, 0, 0, << DxfText(<<"^ ^ ^ ^ ^ ^ ^ ^ ^ ^ ^ ^ ^ ^ ^ ^">>, 40, RED, "Standard", Pt(300 * du, 253 * du), "MIDDLE_CENTER") >>),
    Stmt("msp.add_lwpolyline", 818, 0, 0, << LwPolyline(<<Pt(50 * du, 233 * du), Pt(550 * du, 233 * du), Pt(550 * du, 248 * du), Pt(50 * du, 248 * du), Pt(50 * du, 233 * du)>>, WHITE, 35, "BYLAYER") >>),
    Stmt("msp.add_text", 822, 0, 0, << DxfText(<<"ROW C  |  ROW D  (SERVER RACKS)">>, 30, WHITE, "Standard", Pt(300 * du, 240 * du), "MIDDLE_CENTER") >>),
    Stmt("msp.add_text", 825, 0, 0, << DxfText(<<"COLD AISLE (RAISED FLOOR PLENUM SUPPLY)">>, 35, BLUE, "Standard", Pt(300 * du, 220 * du), "MIDDLE_CENTER") >>),
    Stmt("add_equipment", 831, 0, 0, add_equipment(600 * du, 350 * du, 160 * du, 55 * du, <<"ENVIRONMENTAL MONITORING">>, <<"TEMP/HUMIDITY/LEAK DETECT\n-> ALERTS TO BMS/DCIM">>, MAGENTA, FALSE))
  >>
  \o generate_cooling_legend(generate_cooling_legend_items)

(* generate_fire: the calls of the body after the sheet frame, in order: the source *)
(* line of each call, the for statement it is in and its iteration.                  *)
generate_fire_calls ==
  <<
    Stmt("add_equipment", 875, 0, 0, add_equipment(150 * du, 720 * du, 300 * du, 60 * du, <<"FIRE ALARM CONTROL PANEL (FACP)">>, <<"REDUNDANT | ADDRESSABLE | SIL 2 | 72HR BATTERY">>, RED, FALSE)),
    Stmt("msp.add_text", 879, 0, 0, << DxfText(<<"VERY EARLY SMOKE DETECTION -- VESDA ASPIRATING SYSTEM">>, 50, GRAY, "Standard", Pt(35 * du, 690 * du), "LEFT") >>),
    Stmt("add_equipment", 890, 888, 1, add_equipment(30 * du, 620 * du, 130 * du, 55 * du, <<"VESDA ZONE 1">>, <<"DATA HALL\nABOVE & BELOW FLOOR\n4-STAGE ALARM">>, YELLOW, FALSE)),
    Stmt("msp.add_text", 891, 888, 1, << DxfText(<<"VZ-1">>, 30, YELLOW, "Standard", Pt(145 * du, 665 * du), "LEFT") >>),
    Stmt("msp.add_line", 893, 888, 1, << DxfLine(Pt(95 * du, 675 * du), Pt(300 * du, 720 * du), RED, 18, "BYLAYER") >>),
    Stmt("add_equipment", 890, 888, 2, add_equipment(175 * du, 620 * du, 130 * du, 55 * du, <<"VESDA ZONE 2">>, <<"UPS ROOMS\nBATTERY MONITORING\nH2 GAS DETECTION">>, YELLOW, FALSE)),
    Stmt("msp.add_text", 891, 888, 2, << DxfText(<<"VZ-2">>, 30, YELLOW, "Standard", Pt(290 * du, 665 * du), "LEFT") >>),
    Stmt("msp.add_line", 893, 888, 2, << DxfLine(Pt(240 * du, 675 * du), Pt(300 * du, 720 * du), RED, 18, "BYLAYER") >>),
    Stmt("add_equipment", 890, 888, 3, add_equipment(320 * du, 620 * du, 130 * du, 55 * du, <<"VESDA ZONE 3">>, <<"ELECTRICAL\nMV/LV SWITCHGEAR\nARC FLASH DETECTION">>, YELLOW, FALSE)),
    Stmt("msp.add_text", 891, 888, 3, << DxfText(<<"VZ-3">>, 30, YELLOW, "Standard", Pt(435 * du, 665 * du), "LEFT") >>),
    Stmt("msp.add_line", 893, 888, 3, << DxfLine(Pt(385 * du, 675 * du), Pt(300 * du, 720 * du), RED, 18, "BYLAYER") >>),
    Stmt("add_equipment", 890, 888, 4, add_equipment(465 * du, 620 * du, 130 * du, 55 * du, <<"VESDA ZONE 4">>, <<"NOC / MMR\nFIRE CONTROL ROOM">>, YELLOW, FALSE)),
    Stmt("msp.add_text", 891, 888, 4, << DxfText(<<"VZ-4">>, 30, YELLOW, "Standard", Pt(580 * du, 665 * du), "LEFT") >>),
    Stmt("msp.add_line", 893, 888, 4, << DxfLine(Pt(530 * du, 675 * du), Pt(300 * du, 720 * du), RED, 18, "BYLAYER") >>),
    Stmt("msp.add_text", 896, 0, 0, << DxfText(<<"FIRE SUPPRESSION SYSTEMS">>, 50, GRAY, "Standard", Pt(35 * du, 590 * du), "LEFT") >>),
    Stmt("add_equipment", 898, 0, 0, add_equipment(30 * du, 500 * du, 250 * du, 75 * du, <<"CLEAN AGENT SUPPRESSION">>, <<"NOVEC 1230 / FM-200\nDATA HALL, UPS, ELECTRICAL\n<=10s DISCHARGE (NFPA 2001)">>, GREEN, FALSE)),
    Stmt("add_equipment", 900, 0, 0, add_equipment(320 * du, 500 * du, 250 * du, 75 * du, <<"PRE-ACTION SPRINKLER">>, <<"DOUBLE-INTERLOCK (NFPA 13)\nNOC, MMR, STAGING, CORRIDORS\nDRY PIPE UNTIL DUAL TRIGGER">>, BLUE, FALSE)),
    Stmt("msp.add_line", 904, 0, 0, << DxfLine(Pt(200 * du, 720 * du), Pt(155 * du, 575 * du), RED, 25, "BYLAYER") >>),
    Stmt("msp.add_line", 905, 0, 0, << DxfLine(Pt(400 * du, 720 * du), Pt(445 * du, 575 * du), RED, 25, "BYLAYER") >>),
    Stmt("msp.add_text", 908, 0, 0, << DxfText(<<"SYSTEM INTEGRATIONS">>, 50, GRAY, "Standard", Pt(35 * du, 475 * du), "LEFT") >>),
    Stmt("add_equipment", 910, 0, 0, add_equipment(30 * du, 400 * du, 170 * du, 60 * du, <<"EMERGENCY POWER OFF">>, <<"EPO VIA FACP\nFIRE2 ALARM LEVEL\nEPO BUTTONS AT EXITS">>, MAGENTA, FALSE)),
    Stmt("add_equipment", 912, 0, 0, add_equipment(220 * du, 400 * du, 170 * du, 60 * du, <<"BUILDING MANAGEMENT">>, <<"BMS MODBUS/BACnet\nHVAC SHUTDOWN\nSMOKE DAMPER CONTROL">>, WHITE, FALSE)),
    Stmt("add_equipment", 914, 0, 0, add_equipment(410 * du, 400 * du, 170 * du, 60 * du, <<"NOTIFICATION">>, <<"AUDIBLE/VISUAL ALARMS\nFIRE DEPT AUTO-DIAL\nSMS/EMAIL ESCALATION">>, YELLOW, FALSE)),
    Stmt("msp.add_line", 918, 0, 0, << DxfLine(Pt(200 * du, 720 * du), Pt(115 * du, 460 * du), MAGENTA, 18, "BYLAYER") >>),
    Stmt("msp.add_line", 919, 0, 0, << DxfLine(Pt(300 * du, 720 * du), Pt(305 * du, 460 * du), WHITE, 18, "BYLAYER") >>),
    Stmt("msp.add_line", 920, 0, 0, << DxfLine(Pt(400 * du, 720 * du), Pt(495 * du, 460 * du), YELLOW, 18, "BYLAYER") >>),
    Stmt("msp.add_lwpolyline", 923, 0, 0, << LwPolyline(<<Pt(30 * du, 220 * du), Pt(570 * du, 220 * du), Pt(570 * du, 370 * du), Pt(30 * du, 370 * du), Pt(30 * du, 220 * du)>>, RED, 25, "BYLAYER") >>),
    Stmt("msp.add_text", 927, 0, 0, << DxfText(<<"SEQUENCE OF OPERATIONS -- FIRE EVENT RESPONSE">>, 50, RED, "TITLE", Pt(300 * du, 360 * du), "MIDDLE_CENTER") >>),
    Stmt("add_equipment", 943, 941, 1, add_equipment(50 * du, 280 * du, 60 * du, 35 * du, <<"1. ALERT">>, <<"VESDA THRESHOLD">>, YELLOW, FALSE)),
    Stmt("msp.add_text", 945, 941, 1, << DxfText(<<"->">>, 80, RED, "Standard", Pt(115 * du, 297 * du), "MIDDLE_CENTER") >>),
    Stmt("add_equipment", 943, 941, 2, add_equipment(122 * du, 280 * du, 60 * du, 35 * du, <<"2. ACTION">>, <<"NOC NOTIFIED">>, YELLOW, FALSE)),
    Stmt("msp.add_text", 945, 941, 2, << DxfText(<<"->">>, 80, RED, "Standard", Pt(187 * du, 297 * du), "MIDDLE_CENTER") >>),
    Stmt("add_equipment", 943, 941, 3, add_equipment(194 * du, 280 * du, 60 * du, 35 * du, <<"3. FIRE 1">>, <<"AUDIBLE ALARM\nHVAC SHUTDOWN">>, RED, FALSE)),
    Stmt("msp.add_text", 945, 941, 3, << DxfText(<<"->">>, 80, RED, "Standard", Pt(259 * du, 297 * du), "MIDDLE_CENTER") >>),
    Stmt("add_equipment", 943, 941, 4, add_equipment(266 * du, 280 * du, 60 * du, 35 * du, <<"4. FIRE 2">>, <<"FIRE DEPT CALLED\n30s COUNTDOWN">>, RED, FALSE)),
    Stmt("msp.add_text", 945, 941, 4, << DxfText(<<"->">>, 80, RED, "Standard", Pt(331 * du, 297 * du), "MIDDLE_CENTER") >>),
    Stmt("add_equipment", 943, 941, 5, add_equipment(338 * du, 280 * du, 60 * du, 35 * du, <<"5. SUPPRESS">>, <<"CLEAN AGENT\nDISCHARGE">>, GREEN, FALSE)),
    Stmt("msp.add_text", 945, 941, 5, << DxfText(<<"->">>, 80, RED, "Standard", Pt(403 * du, 297 * du), "MIDDLE_CENTER") >>),
    Stmt("add_equipment", 943, 941, 6, add_equipment(410 * du, 280 * du, 60 * du, 35 * du, <<"6. EPO">>, <<"EMERGENCY\nPOWER OFF">>, MAGENTA, FALSE)),
    Stmt("msp.add_text", 945, 941, 6, << DxfText(<<"->">>, 80, RED, "Standard", Pt(475 * du, 297 * du), "MIDDLE_CENTER") >>),
    Stmt("add_equipment", 943, 941, 7, add_equipment(482 * du, 280 * du, 60 * du, 35 * du, <<"7. RESPONSE">>, <<"FIRE DEPT\nON-SITE">>, BLUE, FALSE)),
    Stmt("msp.add_text", 949, 0, 0, << DxfText(<<"NOTE: ABORT BUTTON AVAILABLE AT EACH STEP. NOC OPERATOR CAN HOLD DISCHARGE.">>, 35, RED, "Standard", Pt(300 * du, 235 * du), "MIDDLE_CENTER") >>)
  >>
  \o generate_fire_legend(generate_fire_legend_items)
  \o <<
    Stmt("msp.add_text", 976, 0, 0, << DxfText(<<"APPLICABLE STANDARDS:">>, 40, WHITE, "TITLE", Pt(620 * du, 725 * du), "LEFT") >>),
    Stmt("msp.add_text", 986, 985, 1, << DxfText(<<"NFPA 75  -- IT Equipment Protection">>, 30, WHITE, "Standard", Pt(620 * du, 713 * du), "LEFT") >>),
    Stmt("msp.add_text", 986, 985, 2, << DxfText(<<"NFPA 2001 -- Clean Agent Systems">>, 30, WHITE, "Standard", Pt(620 * du, 705 * du), "LEFT") >>),
    Stmt("msp.add_text", 986, 985, 3, << DxfText(<<"NFPA 13  -- Sprinkler Systems">>, 30, WHITE, "Standard", Pt(620 * du, 697 * du), "LEFT") >>),
    Stmt("msp.add_text", 986, 985, 4, << DxfText(<<"NFPA 72  -- Fire Alarm & Signaling">>, 30, WHITE, "Standard", Pt(620 * du, 689 * du), "LEFT") >>)
  >>

DxfMain_Swapped ==
  << [label |-> <<"[", "1", "/", "5", "] ", "Floor Plan", "...">>, fn |-> generate_floor_plan],
     [label |-> <<"[", "2", "/", "5", "] ", "Electrical Single Line Diagram", "...">>,
      fn |-> generate_network],
     [label |-> <<"[", "3", "/", "5", "] ", "Network Topology", "...">>, fn |-> generate_electrical],
     [label |-> <<"[", "4", "/", "5", "] ", "Cooling System", "...">>, fn |-> generate_cooling],
     [label |-> <<"[", "5", "/", "5", "] ", "Fire Suppression", "...">>, fn |-> generate_fire] >>

(* the __main__ block of generate_dxf.py: five print/call pairs in order *)
DxfMain ==
  << [label |-> <<"[", "1", "/", "5", "] ", "Floor Plan", "...">>, fn |-> generate_floor_plan],
     [label |-> <<"[", "2", "/", "5", "] ", "Electrical Single Line Diagram", "...">>,
      fn |-> generate_electrical],
     [label |-> <<"[", "3", "/", "5", "] ", "Network Topology", "...">>, fn |-> generate_network],
     [label |-> <<"[", "4", "/", "5", "] ", "Cooling System", "...">>, fn |-> generate_cooling],
     [label |-> <<"[", "5", "/", "5", "] ", "Fire Suppression", "...">>, fn |-> generate_fire] >>

----------------------------------------------------------------------------
(* generate_pdf.py: page setup, in units of 1/720 mm *)

mm == 720

pt == 254

PAGE_W == 297 * mm

PAGE_H == 210 * mm

MARGIN == 10 * mm

BORDER == MARGIN + 2 * mm

DRW_LEFT == BORDER + 2 * mm

DRW_BOTTOM == BORDER + 40 * mm

DRW_RIGHT == PAGE_W - BORDER - 2 * mm

DRW_TOP == PAGE_H - BORDER - 2 * mm

DRW_W == DRW_RIGHT - DRW_LEFT

DRW_H == DRW_TOP - DRW_BOTTOM

(* The colours of generate_pdf.py, lines 35-61, by their names there *)
HexColor ==
  [C_BORDER |-> "#1a1a2e",
   C_TITLE_BG |-> "#16213e",
   C_TITLE_TEXT |-> "#e2e2e2",
   C_GRID |-> "#cccccc",
   C_WALL |-> "#2c3e50",
   C_WALL_FILL |-> "#ecf0f1",
   C_RACK |-> "#2c3e50",
   C_RACK_FILL |-> "#34495e",
   C_HOT |-> "#e74c3c",
   C_COLD |-> "#3498db",
   C_DASHED |-> "#7f8c8d",
   C_ELEC_A |-> "#e74c3c",
   C_ELEC_B |-> "#2980b9",
   C_MECH |-> "#27ae60",
   C_GEN |-> "#f39c12",
   C_UPS |-> "#8e44ad",
   C_FIRE |-> "#c0392b",
   C_NET_CORE |-> "#2c3e50",
   C_NET_AGG |-> "#2980b9",
   C_NET_ACC |-> "#27ae60",
   C_COOL_SUPPLY |-> "#3498db",
   C_COOL_RETURN |-> "#e74c3c",
   C_LIGHT_BLUE |-> "#d6eaf8",
   C_LIGHT_RED |-> "#fadbd8",
   C_LIGHT_GREEN |-> "#d5f5e3",
   C_LIGHT_YELLOW |-> "#fef9e7",
   C_LIGHT_PURPLE |-> "#e8daef"]

(* Line widths and font sizes are kept in tenths of a point. *)
GS0 ==
  [lw |-> 10, font |-> "Helvetica", fill |-> "black", stroke |-> "black", dash |-> <<>>,
   size |-> 120]

(* canvas.Canvas(filepath, pagesize=landscape(A4)): nothing is written to    *)
(* filepath before save(); the document info carries the creation time      *)
(* `now`, since the constructor is called without invariant=1.              *)
(* fn is the stack of functions drawing on the canvas (innermost first),    *)
(* saved the stack of saveState().                                           *)
(* ctm is the current transformation (translate(dx, dy) and rotate(90)      *)
(* only), src the function whose call last set each attribute of gs.        *)
Canvas_new(filepath, now) ==
  [fmt |-> "pdf", fn |-> <<"main">>, filename |-> filepath, pagesize |-> <<PAGE_W, PAGE_H>>,
   title |-> <<>>, author |-> "", subject |-> "", ops |-> <<>>, gs |-> GS0, created |-> now,
   ctm |-> [dx |-> 0, dy |-> 0, rot |-> 0], saved |-> <<>>,
   src |-> [lw |-> "Canvas", font |-> "Canvas", fill |-> "Canvas", stroke |-> "Canvas",
            dash |-> "Canvas"]]

(* Canvas instructions, one per call of a canvas method *)
c_setFillColor(col) == [col |-> col, op |-> "setFillColor"]

c_setStrokeColor(col) == [col |-> col, op |-> "setStrokeColor"]

c_setLineWidth(w) == [w |-> w, op |-> "setLineWidth"]

c_setFont(name, size) == [name |-> name, size |-> size, op |-> "setFont"]

c_setDash(on, off) == [dash |-> <<on, off>>, op |-> "setDash"]

c_setDashSolid == [dash |-> <<>>, op |-> "setDash"]

c_rect(x, y, w, h, fill, stroke) ==
  [x |-> x, y |-> y, h |-> h, w |-> w, fill |-> fill, stroke |-> stroke, op |-> "rect"]

c_roundRect(x, y, w, h, radius, fill, stroke) ==
  [x |-> x, y |-> y, r |-> radius, h |-> h, w |-> w, fill |-> fill, stroke |-> stroke,
   op |-> "roundRect"]

c_circle(x, y, r, fill, stroke) ==
  [r |-> r, at |-> Pt(x, y), fill |-> fill, stroke |-> stroke, op |-> "circle"]

c_line(x1, y1, x2, y2) == [pts |-> <<Pt(x1, y1), Pt(x2, y2)>>, op |-> "line"]

c_drawString(x, y, s) == [at |-> Pt(x, y), text |-> s, op |-> "string", anchor |-> "left"]

c_drawCentredString(x, y, s) ==
  [at |-> Pt(x, y), text |-> s, op |-> "string", anchor |-> "centre"]

c_drawRightString(x, y, s) ==
  [at |-> Pt(x, y), text |-> s, op |-> "string", anchor |-> "right"]

c_drawPath(pts, closed, fill, stroke) ==
  [pts |-> pts, fill |-> fill, stroke |-> stroke, op |-> "path", closed |-> closed]

c_saveState == [op |-> "saveState"]

c_restoreState == [op |-> "restoreState"]

c_translate(dx, dy) == [dx |-> dx, dy |-> dy, op |-> "translate"]

c_rotate(theta) == [op |-> "rotate", theta |-> theta]

(* Entering and leaving a function that draws on the canvas *)
c_enter(fn) == [fn |-> fn, op |-> "enter"]

c_leave == [op |-> "leave"]

(* The calls of prog made from inside function fn *)
Call(fn, prog) == <<c_enter(fn)>> \o prog \o <<c_leave>>

(* A user-space point on the page under the current transformation *)
OnPage(c, p) ==
  IF c.ctm.rot = 0
  THEN Pt(c.ctm.dx + p[1], c.ctm.dy + p[2])
  ELSE Pt(c.ctm.dx - p[2], c.ctm.dy + p[1])

(* The shape a drawing call leaves on the page: its geometry with the        *)
(* graphics state that is current when it is drawn, the function that drew   *)
(* it and the functions that set the state it is drawn with.                 *)
Shape(c, kind, pts, closed, fill, stroke, text, anchor, r) ==
  [pts |-> [k \in 1..Len(pts) |-> OnPage(c, pts[k])], kind |-> kind, r |-> r, text |-> text,
   by |-> Head(c.fn), fill |-> fill, stroke |-> stroke, gs |-> c.gs, rot |-> c.ctm.rot,
   src |-> c.src, anchor |-> anchor, closed |-> closed]

Emit(c, shape) == [c EXCEPT !.ops = Append(@, shape)]

Exec(c, ins) ==
  CASE ins.op = "setFillColor" ->
         [c EXCEPT !.gs.fill = ins.col, !.src.fill = Head(c.fn)]
    [] ins.op = "setStrokeColor" ->
         [c EXCEPT !.gs.stroke = ins.col, !.src.stroke = Head(c.fn)]
    [] ins.op = "setLineWidth" ->
         [c EXCEPT !.gs.lw = ins.w, !.src.lw = Head(c.fn)]
    [] ins.op = "setFont" ->
         [c EXCEPT !.gs.font = ins.name, !.gs.size = ins.size, !.src.font = Head(c.fn)]
    [] ins.op = "setDash" ->
         [c EXCEPT !.gs.dash = ins.dash, !.src.dash = Head(c.fn)]
    [] ins.op = "rect" ->
         Emit(c, Shape(c, "rect",
                       <<Pt(ins.x, ins.y), Pt(ins.x + ins.w, ins.y),
                         Pt(ins.x + ins.w, ins.y + ins.h), Pt(ins.x, ins.y + ins.h)>>,
                       TRUE, ins.fill, ins.stroke, <<>>, "", 0))
    [] ins.op = "roundRect" ->
         Emit(c, Shape(c, "roundRect",
                       <<Pt(ins.x, ins.y), Pt(ins.x + ins.w, ins.y),
                         Pt(ins.x + ins.w, ins.y + ins.h), Pt(ins.x, ins.y + ins.h)>>,
                       TRUE, ins.fill, ins.stroke, <<>>, "", ins.r))
    [] ins.op = "circle" ->
         Emit(c, Shape(c, "circle", <<ins.at>>, TRUE, ins.fill, ins.stroke, <<>>, "", ins.r))
    [] ins.op = "line" ->
         Emit(c, Shape(c, "line", ins.pts, FALSE, 0, 1, <<>>, "", 0))
    [] ins.op = "path" ->
         Emit(c, Shape(c, "path", ins.pts, ins.closed, ins.fill, ins.stroke, <<>>, "", 0))
    [] ins.op = "string" ->
         Emit(c, Shape(c, "string", <<ins.at>>, FALSE, 1, 0, ins.text, ins.anchor, 0))
    [] ins.op = "saveState" ->
         [c EXCEPT !.saved = <<[gs |-> c.gs, ctm |-> c.ctm, src |-> c.src]>> \o @]
    [] ins.op = "restoreState" ->
         [c EXCEPT !.gs = Head(c.saved).gs, !.ctm = Head(c.saved).ctm,
                   !.src = Head(c.saved).src, !.saved = Tail(@)]
    [] ins.op = "translate" ->
         [c EXCEPT !.ctm = [@ EXCEPT !.dx = OnPage(c, Pt(ins.dx, ins.dy))[1],
                                     !.dy = OnPage(c, Pt(ins.dx, ins.dy))[2]]]
    [] ins.op = "rotate" ->
         [c EXCEPT !.ctm.rot = (@ + ins.theta) % 360]
    [] ins.op = "enter" -> [c EXCEPT !.fn = <<ins.fn>> \o @]
    [] ins.op = "leave" -> [c EXCEPT !.fn = Tail(@)]

RECURSIVE RunProg(_, _)
(* Runs the calls of prog in order on canvas c (the test on c1 only makes  *)
(* each step evaluate before the next: every call leaves a PDF canvas)     *)
RunProg(c, prog) ==
  IF prog = <<>>
  THEN c
  ELSE LET c1 == Exec(c, Head(prog))
       IN IF c1.fmt = "pdf" THEN RunProg(c1, Tail(prog)) ELSE c1

(* draw_border(c) *)
draw_border ==
  << c_setStrokeColor(HexColor.C_BORDER),
     c_setLineWidth(5),
     c_rect(MARGIN, MARGIN, PAGE_W - 2 * MARGIN, PAGE_H - 2 * MARGIN, 0, 1),
     c_setLineWidth(15),
     c_rect(BORDER, BORDER, PAGE_W - 2 * BORDER, PAGE_H - 2 * BORDER, 0, 1) >>

(* draw_title_block(c, dwg_no, title, subtitle, standard, rev="A", scale="NTS") *)
draw_title_block(dwg_no, title, subtitle, standard, rev, scale) ==
  LET tb_x == BORDER
      tb_y == BORDER
      tb_w == PAGE_W - 2 * BORDER
      tb_h == 36 * mm
  IN << c_setFillColor(HexColor.C_TITLE_BG),
        c_rect(tb_x, tb_y, tb_w, tb_h, 1, 0),
        c_setStrokeColor(HexColor.C_TITLE_TEXT),
        c_setLineWidth(5),
        c_line(tb_x, tb_y + 12 * mm, tb_x + tb_w, tb_y + 12 * mm),
        c_line(tb_x, tb_y + 24 * mm, tb_x + tb_w, tb_y + 24 * mm),
        c_line(tb_x + 80 * mm, tb_y, tb_x + 80 * mm, tb_y + 24 * mm),
        c_line(tb_x + 160 * mm, tb_y, tb_x + 160 * mm, tb_y + 24 * mm),
        c_line(tb_x + 200 * mm, tb_y, tb_x + 200 * mm, tb_y + 12 * mm),
        c_setFillColor("white"),
        c_setFont("Helvetica-Bold", 140),
        c_drawString(tb_x + 6 * mm, tb_y + 27 * mm, <<"SATSIBER DATA CENTER -- ">> \o title),
        c_setFont("Helvetica", 80),
        c_drawRightString(tb_x + tb_w - 4 * mm, tb_y + 27 * mm, <<"UPTIME TIER III DESIGN">>),
        c_setFont("Helvetica", 70),
        c_setFillColor("#aaaaaa"),
        c_drawString(tb_x + 4 * mm, tb_y + 19 * mm, <<"PROJECT">>),
        c_drawString(tb_x + 84 * mm, tb_y + 19 * mm, <<"SUBTITLE">>),
        c_drawString(tb_x + 164 * mm, tb_y + 19 * mm, <<"CLASSIFICATION">>),
        c_setFillColor("white"),
        c_setFont("Helvetica-Bold", 90),
        c_drawString(tb_x + 4 * mm, tb_y + 14 * mm, <<"Satsiber New Data Center">>),
        c_drawString(tb_x + 84 * mm, tb_y + 14 * mm, subtitle),
        c_drawString(tb_x + 164 * mm, tb_y + 14 * mm, <<"CONFIDENTIAL">>),
        c_setFont("Helvetica", 70),
        c_setFillColor("#aaaaaa"),
        c_drawString(tb_x + 4 * mm, tb_y + 7 * mm, <<"DWG NO.">>),
        c_drawString(tb_x + 84 * mm, tb_y + 7 * mm, <<"STANDARD">>),
        c_drawString(tb_x + 164 * mm, tb_y + 7 * mm, <<"SCALE">>),
        c_drawString(tb_x + 204 * mm, tb_y + 7 * mm, <<"REV">>),
        c_setFillColor("white"),
        c_setFont("Helvetica-Bold", 100),
        c_drawString(tb_x + 4 * mm, tb_y + 2 * mm, dwg_no),
        c_setFont("Helvetica", 90),
        c_drawString(tb_x + 84 * mm, tb_y + 2 * mm, standard),
        c_drawString(tb_x + 164 * mm, tb_y + 2 * mm, scale),
        c_drawString(tb_x + 204 * mm, tb_y + 2 * mm, rev),
        c_setFont("Helvetica", 70),
        c_setFillColor("#aaaaaa"),
        c_drawString(tb_x + 230 * mm, tb_y + 7 * mm, <<"DATE">>),
        c_setFillColor("white"),
        c_setFont("Helvetica", 90),
        c_drawString(tb_x + 230 * mm, tb_y + 2 * mm, <<"2026-02-27">>) >>

(* draw_grid_refs(c): x = DRW_LEFT + (i + 0.5) * DRW_W / len(cols), i from 0 *)
draw_grid_refs ==
  LET cols == <<"A", "B", "C", "D", "E", "F", "G", "H", "J", "K">>
      rows == <<"1", "2", "3", "4", "5", "6", "7", "8">>
      colX(k) == DRW_LEFT + ((2 * (k - 1) + 1) * DRW_W) \div (2 * Len(cols))
      rowY(k) == DRW_BOTTOM + ((2 * (k - 1) + 1) * DRW_H) \div (2 * Len(rows))
      colStr(j) ==
        LET k == (j + 1) \div 2
        IN IF j % 2 = 1
           THEN c_drawCentredString(colX(k), DRW_TOP + 2 * mm, <<cols[k]>>)
           ELSE c_drawCentredString(colX(k), DRW_BOTTOM - 6 * mm, <<cols[k]>>)
      rowStr(j) ==
        LET k == (j + 1) \div 2
        IN IF j % 2 = 1
           THEN c_drawCentredString(DRW_LEFT - 5 * mm, rowY(k) - 2 * pt, <<rows[k]>>)
           ELSE c_drawCentredString(DRW_RIGHT + 5 * mm, rowY(k) - 2 * pt, <<rows[k]>>)
  IN << c_setFont("Helvetica", 60), c_setFillColor(HexColor.C_GRID) >>
     \o [j \in 1..(2 * Len(cols)) |-> colStr(j)]
     \o [j \in 1..(2 * Len(rows)) |-> rowStr(j)]

(* draw_room(c, x, y, w, h, label, ref_id, fill, text_color): no check of w or h; *)
(* ref_id = <<>> stands for None                                                  *)
draw_room(x, y, w, h, label, ref_id, fill, text_color) ==
  << c_setFillColor(fill),
     c_setStrokeColor(HexColor.C_WALL),
     c_setLineWidth(12),
     c_rect(x, y, w, h, 1, 1),
     c_setFillColor(text_color),
     c_setFont("Helvetica-Bold", 70),
     c_drawCentredString(x + w \div 2, y + h \div 2 + 2 * pt, label) >>
  \o (IF ref_id # <<>>
      THEN << c_setFont("Helvetica", 55),
              c_setFillColor("#666666"),
              c_drawCentredString(x + w \div 2, y + h \div 2 - 6 * pt, ref_id) >>
      ELSE << >>)

(* draw_rack(c, x, y, w, h, label, fill): no check of w or h *)
draw_rack(x, y, w, h, label, fill) ==
  << c_setFillColor(fill),
     c_setStrokeColor(HexColor.C_RACK),
     c_setLineWidth(8),
     c_rect(x, y, w, h, 1, 1),
     c_setFillColor("white"),
     c_setFont("Helvetica-Bold", 45),
     c_drawCentredString(x + w \div 2, y + h \div 2 - (3 * pt) \div 2, label) >>

(* draw_dashed_rect(c, x, y, w, h, color, width): no check of w or h *)
draw_dashed_rect(x, y, w, h, color, width) ==
  << c_setStrokeColor(color),
     c_setLineWidth(width),
     c_setDash(3 * pt, 2 * pt),
     c_rect(x, y, w, h, 0, 1),
     c_setDashSolid >>

(* Fixed-point values of cos(0.3) and sin(0.3), the head half-angle of draw_arrow *)
TrigScale == 10000

Cos03 == 9553

Sin03 == 2955

RECURSIVE GCD(_, _)
GCD(a, b) == IF b = 0 THEN a ELSE GCD(b, a % b)

Abs(n) == IF n < 0 THEN -n ELSE n

IsSquare(n) == \E r \in 0..n : r * r = n

ISqrt(n) == CHOOSE r \in 0..n : r * r = n

(* Round(n, d): n / d rounded to the nearest unit, d > 0 *)
Round(n, d) == (2 * n + d) \div (2 * d)

(* math.atan2(dy, dx): the angle is kept as its direction (cos, sin) = (c/l, s/l), *)
(* exact for the directions whose length is rational; atan2(0, 0) = 0.             *)
atan2(dy, dx) ==
  IF dx = 0 /\ dy = 0
  THEN [c |-> 1, s |-> 0, l |-> 1]
  ELSE LET g == GCD(Abs(dx), Abs(dy))
           ux == dx \div g
           uy == dy \div g
       IN [c |-> ux, s |-> uy, l |-> ISqrt(ux * ux + uy * uy)]

(* r * math.cos(angle + off * 0.3) and r * math.sin(angle + off * 0.3), off = 1 or -1 *)
MulCos(r, a, off) == Round(r * (a.c * Cos03 - off * a.s * Sin03), a.l * TrigScale)

MulSin(r, a, off) == Round(r * (a.s * Cos03 + off * a.c * Sin03), a.l * TrigScale)

draw_arrow_Forward(x1, y1, x2, y2, color, width) ==
  LET angle == atan2(y2 - y1, x2 - x1)
      alen == 3 * mm
  IN << c_setStrokeColor(color),
        c_setFillColor(color),
        c_setLineWidth(width),
        c_line(x1, y1, x2, y2),
        c_drawPath(<< Pt(x2, y2),
                      Pt(x2 + MulCos(alen, angle, -1), y2 + MulSin(alen, angle, -1)),
                      Pt(x2 + MulCos(alen, angle, 1), y2 + MulSin(alen, angle, 1)) >>,
                   TRUE, 1, 0) >>

(* draw_arrow(c, x1, y1, x2, y2, color, width) *)
draw_arrow(x1, y1, x2, y2, color, width) ==
  LET angle == atan2(y2 - y1, x2 - x1)
      alen == 3 * mm
  IN << c_setStrokeColor(color),
        c_setFillColor(color),
        c_setLineWidth(width),
        c_line(x1, y1, x2, y2),
        c_drawPath(<< Pt(x2, y2),
                      Pt(x2 - MulCos(alen, angle, -1), y2 - MulSin(alen, angle, -1)),
                      Pt(x2 - MulCos(alen, angle, 1), y2 - MulSin(alen, angle, 1)) >>,
                   TRUE, 1, 0) >>

draw_legend_item_DashLeft(x, y, color, label, shape) ==
  (CASE shape = "rect" ->
          << c_setFillColor(color),
             c_setStrokeColor("black"),
             c_setLineWidth(4),
             c_rect(x, y, 4 * mm, 3 * mm, 1, 1) >>
     [] shape = "line" ->
          << c_setStrokeColor(color),
             c_setLineWidth(15),
             c_line(x, y + (3 * mm) \div 2, x + 4 * mm, y + (3 * mm) \div 2) >>
     [] shape = "dash" ->
          << c_setStrokeColor(color),
             c_setLineWidth(10),
             c_setDash(2 * pt, (3 * pt) \div 2),
             c_line(x, y + (3 * mm) \div 2, x + 4 * mm, y + (3 * mm) \div 2) >>
     [] shape = "circle" ->
          << c_setFillColor(color),
             c_setStrokeColor("black"),
             c_setLineWidth(4),
             c_circle(x + 2 * mm, y + (3 * mm) \div 2, (3 * mm) \div 2, 1, 1) >>
     [] OTHER -> << >>)
  \o << c_setFillColor("black"),
        c_setFont("Helvetica", 55),
        c_drawString(x + 6 * mm, y + mm \div 2, label) >>

(* draw_legend_item(c, x, y, color, label, shape="rect"): a shape other than *)
(* the four named ones draws the label alone                                  *)
draw_legend_item(x, y, color, label, shape) ==
  (CASE shape = "rect" ->
          << c_setFillColor(color),
             c_setStrokeColor("black"),
             c_setLineWidth(4),
             c_rect(x, y, 4 * mm, 3 * mm, 1, 1) >>
     [] shape = "line" ->
          << c_setStrokeColor(color),
             c_setLineWidth(15),
             c_line(x, y + (3 * mm) \div 2, x + 4 * mm, y + (3 * mm) \div 2) >>
     [] shape = "dash" ->
          << c_setStrokeColor(color),
             c_setLineWidth(10),
             c_setDash(2 * pt, (3 * pt) \div 2),
             c_line(x, y + (3 * mm) \div 2, x + 4 * mm, y + (3 * mm) \div 2),
             c_setDashSolid >>
     [] shape = "circle" ->
          << c_setFillColor(color),
             c_setStrokeColor("black"),
             c_setLineWidth(4),
             c_circle(x + 2 * mm, y + (3 * mm) \div 2, (3 * mm) \div 2, 1, 1) >>
     [] OTHER -> << >>)
  \o << c_setFillColor("black"),
        c_setFont("Helvetica", 55),
        c_drawString(x + 6 * mm, y + mm \div 2, label) >>

(* draw_north_arrow(c, x, y) *)
draw_north_arrow(x, y) ==
  << c_setStrokeColor("black"),
     c_setFillColor("black"),
     c_setLineWidth(8),
     c_drawPath(<< Pt(x, y), Pt(x - 2 * mm, y - 6 * mm), Pt(x, y - (9 * mm) \div 2),
                   Pt(x + 2 * mm, y - 6 * mm) >>, TRUE, 1, 1),
     c_setFont("Helvetica-Bold", 70),
     c_drawCentredString(x, y + 2 * mm, <<"N">>) >>

(* draw_network: net_box(x, y, w, h, label, sublabel, fill, border_color=black); *)
(* sublabel = <<>> stands for an empty string                                     *)
net_box(x, y, w, h, label, sublabel, fill, border_color) ==
  << c_setFillColor(fill),
     c_setStrokeColor(border_color),
     c_setLineWidth(10),
     c_roundRect(x - w \div 2, y - h \div 2, w, h, 2 * mm, 1, 1),
     c_setFillColor(IF fill # "white" THEN "white" ELSE "black"),
     c_setFont("Helvetica-Bold", 60),
     c_drawCentredString(x, y + 1 * mm, label) >>
  \o (IF sublabel # <<>>
      THEN << c_setFont("Helvetica", 45),
              c_drawCentredString(x, y - 4 * mm, sublabel) >>
      ELSE << >>)

net_line_Vertical(x1, y1, x2, y2, color, width, dashed) ==
  << c_setStrokeColor(color), c_setLineWidth(width) >>
  \o (IF dashed THEN << c_setDash(3 * pt, 2 * pt) >> ELSE << >>)
  \o << c_line(x1, y1, x1, y2) >>
  \o (IF dashed THEN << c_setDashSolid >> ELSE << >>)

(* draw_network: net_line(x1, y1, x2, y2, color=black, width=1, dashed=False) *)
net_line(x1, y1, x2, y2, color, width, dashed) ==
  << c_setStrokeColor(color), c_setLineWidth(width) >>
  \o (IF dashed THEN << c_setDash(3 * pt, 2 * pt) >> ELSE << >>)
  \o << c_line(x1, y1, x2, y2) >>
  \o (IF dashed THEN << c_setDashSolid >> ELSE << >>)

(* draw_cooling: equip_box(x, y, w, h, label, sublabel, fill, is_spare=False) *)
equip_box(x, y, w, h, label, sublabel, fill, is_spare) ==
  << c_setStrokeColor(IF ~is_spare THEN "black" ELSE HexColor.C_DASHED),
     c_setLineWidth(IF ~is_spare THEN 10 ELSE 6) >>
  \o (IF is_spare THEN << c_setDash(3 * pt, 2 * pt) >> ELSE << >>)
  \o << c_setFillColor(fill),
        c_rect(x, y, w, h, 1, 1) >>
  \o (IF is_spare THEN << c_setDashSolid >> ELSE << >>)
  \o << c_setFillColor("black"),
        c_setFont("Helvetica-Bold", 60),
        c_drawCentredString(x + w \div 2, y + h \div 2 + 1 * mm, label) >>
  \o (IF sublabel # <<>>
      THEN << c_setFont("Helvetica", 45),
              c_drawCentredString(x + w \div 2, y + h \div 2 - 4 * mm, sublabel) >>
      ELSE << >>)

(* draw_fire: sys_box(x, y, w, h, label, sublabel, fill, border=black) *)
sys_box(x, y, w, h, label, sublabel, fill, border) ==
  << c_setFillColor(fill),
     c_setStrokeColor(border),
     c_setLineWidth(10),
     c_roundRect(x, y, w, h, 2 * mm, 1, 1),
     c_setFillColor(IF fill \notin {"white", HexColor.C_LIGHT_YELLOW, HexColor.C_LIGHT_RED, HexColor.C_LIGHT_GREEN,
                                    HexColor.C_LIGHT_BLUE}
                    THEN "white" ELSE "black"),
     c_setFont("Helvetica-Bold", 60),
     c_drawCentredString(x + w \div 2, y + h \div 2 + 1 * mm, label) >>
  \o (IF sublabel # <<>>
      THEN << c_setFont("Helvetica", 45),
              c_drawCentredString(x + w \div 2, y + h \div 2 - 4 * mm, sublabel) >>
      ELSE << >>)

(* draw_floor_plan(c) *)
draw_floor_plan ==
  [dwg_no |-> <<"SAT", "-", "DC", "-", "FP", "-", "001">>,
   standard |-> <<"ISO/IEC 22237 / TIA-942">>,
   body |-> SectionsOf("FP", <<"Building envelope", "DATA HALL", "Racks and aisles",
            "SUPPORT ROOMS (left side)", "SUPPORT ROOMS (right side)", "Generator Yard",
            "Cooling Yard", "NORTH ARROW", "LEGEND", "GENERAL NOTES">>),
   title |-> <<"DATA CENTER FLOOR PLAN">>, subtitle |-> <<"16-Rack Layout -- Hot/Cold Aisle">>]

(* draw_electrical(c) *)
draw_electrical ==
  [dwg_no |-> <<"SAT", "-", "DC", "-", "EL", "-", "001">>,
   standard |-> <<"IEC 60617 / IEEE C2">>,
   body |-> SectionsOf("EL", <<"UTILITY FEEDS", "Bus bars", "GENERATORS", "TRANSFORMERS",
            "LV SWITCHBOARDS", "UPS SYSTEMS", "STS", "PDU / RACKS", "LEGEND">>),
   title |-> <<"ELECTRICAL SINGLE LINE DIAGRAM">>,
   subtitle |-> <<"Dual Feed -- N+1 Redundancy">>]

(* draw_network(c) *)
draw_network ==
  [dwg_no |-> <<"SAT", "-", "DC", "-", "NT", "-", "001">>,
   standard |-> <<"TIA-942 / ISO/IEC 24764">>,
   body |-> SectionsOf("NT", <<"ZONE: WAN / INTERNET", "ZONE: DMZ", "ZONE: CORE",
            "ZONE: ACCESS", "OOB MANAGEMENT", "LEGEND">>),
   title |-> <<"NETWORK TOPOLOGY DIAGRAM">>, subtitle |-> <<"Redundant Core -- Dual ISP">>]

(* draw_cooling(c) *)
draw_cooling ==
  [dwg_no |-> <<"SAT", "-", "DC", "-", "CL", "-", "001">>, standard |-> <<"ASHRAE TC 9.9">>,
   body |-> SectionsOf("CL", <<"OUTDOOR SECTION", "CHILLER PLANT", "CHW DISTRIBUTION",
            "ENVIRONMENTAL MONITORING", "LEGEND">>),
   title |-> <<"COOLING SYSTEM DIAGRAM">>, subtitle |-> <<"Chilled Water -- N+1 CRAHs">>]

(* draw_fire(c) *)
draw_fire ==
  [dwg_no |-> <<"SAT", "-", "DC", "-", "FS", "-", "001">>,
   standard |-> <<"NFPA 75 / NFPA 2001">>,
   body |-> SectionsOf("FS", <<"FACP (TOP CENTER)", "DETECTION TIER", "SUPPRESSION TIER",
            "INTEGRATION TIER", "SEQUENCE OF OPERATIONS", "LEGEND">>),
   title |-> <<"FIRE SUPPRESSION SYSTEM">>, subtitle |-> <<"VESDA / Clean Agent / Pre-Action">>]

(* draw_floor_plan: the calls of the body after the sheet frame, in order: the source *)
(* line of each call, the for statement it is in and its iteration.                    *)
draw_floor_plan_calls ==
  <<
    Stmt("c.setStrokeColor", 272, 0, 0, << c_setStrokeColor(HexColor.C_WALL) >>),
    Stmt("c.setLineWidth", 273, 0, 0, << c_setLineWidth(25) >>),
    Stmt("c.setFillColor", 274, 0, 0, << c_setFillColor("white") >>),
    Stmt("c.rect", 275, 0, 0, << c_rect(22 * mm, 60 * mm, 230 * mm, 128 * mm, 1, 1) >>),
    Stmt("c.setFillColor", 282, 0, 0, << c_setFillColor(HexColor.C_LIGHT_BLUE) >>),
    Stmt("c.setStrokeColor", 283, 0, 0, << c_setStrokeColor(HexColor.C_WALL) >>),
    Stmt("c.setLineWidth", 284, 0, 0, << c_setLineWidth(15) >>),
    Stmt("c.rect", 285, 0, 0, << c_rect(80 * mm, 65 * mm, 130 * mm, 118 * mm, 1, 1) >>),
    Stmt("c.setFillColor", 286, 0, 0, << c_setFillColor(HexColor.C_WALL) >>),
    Stmt("c.setFont", 287, 0, 0, << c_setFont("Helvetica-Bold", 90) >>),
    Stmt("c.drawCentredString", 288, 0, 0, << c_drawCentredString(145 * mm, 176 * mm, <<"DATA HALL">>) >>),
    Stmt("c.setFont", 289, 0, 0, << c_setFont("Helvetica", 60) >>),
    Stmt("c.drawCentredString", 290, 0, 0, << c_drawCentredString(145 * mm, 171 * mm, <<"R-01  |  ~120 m2  |  Raised Floor 600mm">>) >>),
    Stmt("draw_rack", 306, 304, 1, draw_rack(92 * mm, 75 * mm, 7 * mm, 11 * mm, <<"A01">>, HexColor.C_RACK_FILL)),
    Stmt("draw_rack", 306, 304, 2, draw_rack(92 * mm, 88 * mm, 7 * mm, 11 * mm, <<"A02">>, HexColor.C_RACK_FILL)),
    Stmt("draw_rack", 306, 304, 3, draw_rack(92 * mm, 101 * mm, 7 * mm, 11 * mm, <<"A03">>, HexColor.C_RACK_FILL)),
    Stmt("draw_rack", 306, 304, 4, draw_rack(92 * mm, 114 * mm, 7 * mm, 11 * mm, <<"A04">>, HexColor.C_RACK_FILL)),
    Stmt("draw_rack", 306, 304, 5, draw_rack(92 * mm, 127 * mm, 7 * mm, 11 * mm, <<"A05">>, HexColor.C_RACK_FILL)),
    Stmt("draw_rack", 306, 304, 6, draw_rack(92 * mm, 140 * mm, 7 * mm, 11 * mm, <<"A06">>, HexColor.C_RACK_FILL)),
    Stmt("draw_rack", 306, 304, 7, draw_rack(92 * mm, 153 * mm, 7 * mm, 11 * mm, <<"A07">>, HexColor.C_RACK_FILL)),
    Stmt("draw_rack", 306, 304, 8, draw_rack(92 * mm, 166 * mm, 7 * mm, 11 * mm, <<"A08">>, HexColor.C_RACK_FILL)),
    Stmt("c.setFillColor", 310, 0, 0, << c_setFillColor("#d6eaf844") >>),
    Stmt("c.setStrokeColor", 311, 0, 0, << c_setStrokeColor(HexColor.C_COLD) >>),
    Stmt("c.setLineWidth", 312, 0, 0, << c_setLineWidth(6) >>),
    Stmt("c.setDash", 313, 0, 0, << c_setDash(2 * pt, 1 * pt) >>),
    Stmt("c.rect", 314, 0, 0, << c_rect(100 * mm, 74 * mm, 18 * mm, 104 * mm, 0, 1) >>),
    Stmt("c.setDash", 315, 0, 0, << c_setDashSolid >>),
    Stmt("c.saveState", 316, 0, 0, << c_saveState >>),
    Stmt("c.setFillColor", 317, 0, 0, << c_setFillColor(HexColor.C_COLD) >>),
    Stmt("c.setFont", 318, 0, 0, << c_setFont("Helvetica", 50) >>),
    Stmt("c.translate", 319, 0, 0, << c_translate(109 * mm, 105 * mm) >>),
    Stmt("c.rotate", 320, 0, 0, << c_rotate(90) >>),
    Stmt("c.drawCentredString", 321, 0, 0, << c_drawCentredString(0, 0, <<"COLD AISLE 1">>) >>),
    Stmt("c.restoreState", 322, 0, 0, << c_restoreState >>),
    Stmt("draw_rack", 328, 326, 1, draw_rack(119 * mm, 75 * mm, 7 * mm, 11 * mm, <<"B01">>, HexColor.C_RACK_FILL)),
    Stmt("draw_rack", 328, 326, 2, draw_rack(119 * mm, 88 * mm, 7 * mm, 11 * mm, <<"B02">>, HexColor.C_RACK_FILL)),
    Stmt("draw_rack", 328, 326, 3, draw_rack(119 * mm, 101 * mm, 7 * mm, 11 * mm, <<"B03">>, HexColor.C_RACK_FILL)),
    Stmt("draw_rack", 328, 326, 4, draw_rack(119 * mm, 114 * mm, 7 * mm, 11 * mm, <<"B04">>, HexColor.C_RACK_FILL)),
    Stmt("draw_rack", 328, 326, 5, draw_rack(119 * mm, 127 * mm, 7 * mm, 11 * mm, <<"B05">>, HexColor.C_RACK_FILL)),
    Stmt("draw_rack", 328, 326, 6, draw_rack(119 * mm, 140 * mm, 7 * mm, 11 * mm, <<"B06">>, HexColor.C_RACK_FILL)),
    Stmt("draw_rack", 328, 326, 7, draw_rack(119 * mm, 153 * mm, 7 * mm, 11 * mm, <<"B07">>, HexColor.C_RACK_FILL)),
    Stmt("draw_rack", 328, 326, 8, draw_rack(119 * mm, 166 * mm, 7 * mm, 11 * mm, <<"B08">>, HexColor.C_RACK_FILL)),
    Stmt("c.setStrokeColor", 332, 0, 0, << c_setStrokeColor(HexColor.C_HOT) >>),
    Stmt("c.setLineWidth", 333, 0, 0, << c_setLineWidth(6) >>),
    Stmt("c.setDash", 334, 0, 0, << c_setDash(2 * pt, 1 * pt) >>),
    Stmt("c.rect", 335, 0, 0, << c_rect(128 * mm, 74 * mm, 14 * mm, 104 * mm, 0, 1) >>),
    Stmt("c.setDash", 336, 0, 0, << c_setDashSolid >>),
    Stmt("c.saveState", 337, 0, 0, << c_saveState >>),
    Stmt("c.setFillColor", 338, 0, 0, << c_setFillColor(HexColor.C_HOT) >>),
    Stmt("c.setFont", 339, 0, 0, << c_setFont("Helvetica", 50) >>),
    Stmt("c.translate", 340, 0, 0, << c_translate(135 * mm, 105 * mm) >>),
    Stmt("c.rotate", 341, 0, 0, << c_rotate(90) >>),
    Stmt("c.drawCentredString", 342, 0, 0, << c_drawCentredString(0, 0, <<"HOT AISLE">>) >>),
    Stmt("c.restoreState", 343, 0, 0, << c_restoreState >>),
    Stmt("draw_rack", 349, 347, 1, draw_rack(144 * mm, 75 * mm, 7 * mm, 11 * mm, <<"C01">>, HexColor.C_RACK_FILL)),
    Stmt("draw_rack", 349, 347, 2, draw_rack(144 * mm, 88 * mm, 7 * mm, 11 * mm, <<"C02">>, HexColor.C_RACK_FILL)),
    Stmt("draw_rack", 349, 347, 3, draw_rack(144 * mm, 101 * mm, 7 * mm, 11 * mm, <<"C03">>, HexColor.C_RACK_FILL)),
    Stmt("draw_rack", 349, 347, 4, draw_rack(144 * mm, 114 * mm, 7 * mm, 11 * mm, <<"C04">>, HexColor.C_RACK_FILL)),
    Stmt("draw_rack", 349, 347, 5, draw_rack(144 * mm, 127 * mm, 7 * mm, 11 * mm, <<"C05">>, HexColor.C_RACK_FILL)),
    Stmt("draw_rack", 349, 347, 6, draw_rack(144 * mm, 140 * mm, 7 * mm, 11 * mm, <<"C06">>, HexColor.C_RACK_FILL)),
    Stmt("draw_rack", 349, 347, 7, draw_rack(144 * mm, 153 * mm, 7 * mm, 11 * mm, <<"C07">>, HexColor.C_RACK_FILL)),
    Stmt("draw_rack", 349, 347, 8, draw_rack(144 * mm, 166 * mm, 7 * mm, 11 * mm, <<"C08">>, HexColor.C_RACK_FILL)),
    Stmt("c.setStrokeColor", 352, 0, 0, << c_setStrokeColor(HexColor.C_COLD) >>),
    Stmt("c.setLineWidth", 353, 0, 0, << c_setLineWidth(6) >>),
    Stmt("c.setDash", 354, 0, 0, << c_setDash(2 * pt, 1 * pt) >>),
    Stmt("c.rect", 355, 0, 0, << c_rect(152 * mm, 74 * mm, 18 * mm, 104 * mm, 0, 1) >>),
    Stmt("c.setDash", 356, 0, 0, << c_setDashSolid >>),
    Stmt("c.saveState", 357, 0, 0, << c_saveState >>),
    Stmt("c.setFillColor", 358, 0, 0, << c_setFillColor(HexColor.C_COLD) >>),
    Stmt("c.setFont", 359, 0, 0, << c_setFont("Helvetica", 50) >>),
    Stmt("c.translate", 360, 0, 0, << c_translate(161 * mm, 105 * mm) >>),
    Stmt("c.rotate", 361, 0, 0, << c_rotate(90) >>),
    Stmt("c.drawCentredString", 362, 0, 0, << c_drawCentredString(0, 0, <<"COLD AISLE 2">>) >>),
    Stmt("c.restoreState", 363, 0, 0, << c_restoreState >>),
    Stmt("draw_rack", 368, 366, 1, draw_rack(171 * mm, 75 * mm, 7 * mm, 11 * mm, <<"D01">>, HexColor.C_RACK_FILL)),
    Stmt("draw_rack", 368, 366, 2, draw_rack(171 * mm, 88 * mm, 7 * mm, 11 * mm, <<"D02">>, HexColor.C_RACK_FILL)),
    Stmt("draw_rack", 368, 366, 3, draw_rack(171 * mm, 101 * mm, 7 * mm, 11 * mm, <<"D03">>, HexColor.C_RACK_FILL)),
    Stmt("draw_rack", 368, 366, 4, draw_rack(171 * mm, 114 * mm, 7 * mm, 11 * mm, <<"D04">>, HexColor.C_RACK_FILL)),
    Stmt("draw_rack", 368, 366, 5, draw_rack(171 * mm, 127 * mm, 7 * mm, 11 * mm, <<"D05">>, HexColor.C_RACK_FILL)),
    Stmt("draw_rack", 368, 366, 6, draw_rack(171 * mm, 140 * mm, 7 * mm, 11 * mm, <<"D06">>, HexColor.C_RACK_FILL)),
    Stmt("draw_rack", 368, 366, 7, draw_rack(171 * mm, 153 * mm, 7 * mm, 11 * mm, <<"D07">>, HexColor.C_RACK_FILL)),
    Stmt("draw_rack", 368, 366, 8, draw_rack(171 * mm, 166 * mm, 7 * mm, 11 * mm, <<"D08">>, HexColor.C_RACK_FILL)),
    Stmt("draw_room", 375, 0, 0, draw_room(24 * mm, 158 * mm, 54 * mm, 28 * mm, <<"ELECTRICAL ROOM">>, <<"R-02">>, HexColor.C_LIGHT_YELLOW, HexColor.C_WALL)),
    Stmt("c.setFont", 377, 0, 0, << c_setFont("Helvetica", 45) >>),
    Stmt("c.setFillColor", 378, 0, 0, << c_setFillColor("#666666") >>),
    Stmt("c.drawCentredString", 379, 0, 0, << c_drawCentredString(51 * mm, 170 * mm, <<"MV/LV Switchgear">>) >>),
    Stmt("c.drawCentredString", 380, 0, 0, << c_drawCentredString(51 * mm, 166 * mm, <<"ATS / Transformers">>) >>),
    Stmt("draw_room", 383, 0, 0, draw_room(24 * mm, 131 * mm, (27 * mm - 1 * pt), 24 * mm, <<"UPS-A">>, <<"R-03">>, HexColor.C_LIGHT_PURPLE, HexColor.C_WALL)),
    Stmt("draw_room", 386, 0, 0, draw_room((51 * mm + 1 * pt), 131 * mm, (27 * mm - 1 * pt), 24 * mm, <<"UPS-B">>, <<"R-04">>, HexColor.C_LIGHT_PURPLE, HexColor.C_WALL)),
    Stmt("draw_room", 390, 0, 0, draw_room(24 * mm, 110 * mm, (27 * mm - 1 * pt), 18 * mm, <<"BATT-A">>, <<"R-05">>, "#fdebd0", HexColor.C_WALL)),
    Stmt("draw_room", 393, 0, 0, draw_room((51 * mm + 1 * pt), 110 * mm, (27 * mm - 1 * pt), 18 * mm, <<"BATT-B">>, <<"R-06">>, "#fdebd0", HexColor.C_WALL)),
    Stmt("draw_room", 397, 0, 0, draw_room(24 * mm, 88 * mm, 54 * mm, 19 * mm, <<"NOC / OPERATIONS">>, <<"R-07">>, HexColor.C_LIGHT_GREEN, HexColor.C_WALL)),
    Stmt("draw_room", 401, 0, 0, draw_room(24 * mm, 62 * mm, 54 * mm, 18 * mm, <<"MEET-ME ROOM (MMR)">>, <<"R-08">>, "#d5dbdb", HexColor.C_WALL)),
    Stmt("c.setFont", 403, 0, 0, << c_setFont("Helvetica", 45) >>),
    Stmt("c.setFillColor", 404, 0, 0, << c_setFillColor("#666666") >>),
    Stmt("c.drawCentredString", 405, 0, 0, << c_drawCentredString(51 * mm, 68 * mm, <<"Carrier Entries (Diverse)">>) >>),
    Stmt("draw_room", 408, 0, 0, draw_room(24 * mm, 83 * mm, 54 * mm, 14 * mm, <<"STAGING / LOADING">>, <<"R-09">>, "#f2f3f4", HexColor.C_WALL)),
    Stmt("draw_room", 416, 0, 0, draw_room(212 * mm, 148 * mm, 38 * mm, 38 * mm, <<"COOLING PLANT">>, <<"R-10">>, HexColor.C_LIGHT_BLUE, HexColor.C_WALL)),
    Stmt("c.setFont", 418, 0, 0, << c_setFont("Helvetica", 45) >>),
    Stmt("c.setFillColor", 419, 0, 0, << c_setFillColor("#666666") >>),
    Stmt("c.drawCentredString", 420, 0, 0, << c_drawCentredString(231 * mm, 168 * mm, <<"Chillers (", "N+1", ")">>) >>),
    Stmt("c.drawCentredString", 421, 0, 0, << c_drawCentredString(231 * mm, 164 * mm, <<"Pumps / Piping">>) >>),
    Stmt("draw_room", 424, 0, 0, draw_room(212 * mm, 126 * mm, 38 * mm, 19 * mm, <<"FIRE CONTROL">>, <<"R-11">>, HexColor.C_LIGHT_RED, HexColor.C_WALL)),
    Stmt("c.setFont", 426, 0, 0, << c_setFont("Helvetica", 45) >>),
    Stmt("c.setFillColor", 427, 0, 0, << c_setFillColor("#666666") >>),
    Stmt("c.drawCentredString", 428, 0, 0, << c_drawCentredString(231 * mm, 138 * mm, <<"FACP / Agent Storage">>) >>),
    Stmt("draw_room", 431, 0, 0, draw_room(212 * mm, 62 * mm, 38 * mm, 16 * mm, <<"SECURITY / ACCESS">>, <<"R-12">>, "#d5dbdb", HexColor.C_WALL)),
    Stmt("c.setStrokeColor", 439, 0, 0, << c_setStrokeColor(HexColor.C_GEN) >>),
    Stmt("c.setFillColor", 440, 0, 0, << c_setFillColor(HexColor.C_LIGHT_YELLOW) >>),
    Stmt("c.setLineWidth", 441, 0, 0, << c_setLineWidth(15) >>),
    Stmt("c.setDash", 442, 0, 0, << c_setDash(4 * pt, 2 * pt) >>),
    Stmt("c.rect", 443, 0, 0, << c_rect(256 * mm, 60 * mm, 28 * mm, 50 * mm, 1, 1) >>),
    Stmt("c.setDash", 444, 0, 0, << c_setDashSolid >>),
    Stmt("c.setFillColor", 445, 0, 0, << c_setFillColor(HexColor.C_GEN) >>),
    Stmt("c.setFont", 446, 0, 0, << c_setFont("Helvetica-Bold", 60) >>),
    Stmt("c.drawCentredString", 447, 0, 0, << c_drawCentredString(270 * mm, 104 * mm, <<"GENERATOR">>) >>),
    Stmt("c.drawCentredString", 448, 0, 0, << c_drawCentredString(270 * mm, 100 * mm, <<"YARD">>) >>),
    Stmt("c.setFont", 449, 0, 0, << c_setFont("Helvetica", 50) >>),
    Stmt("c.drawCentredString", 450, 0, 0, << c_drawCentredString(270 * mm, 95 * mm, <<"R-13">>) >>),
    Stmt("c.setFillColor", 455, 452, 1, << c_setFillColor(HexColor.C_GEN) >>),
    Stmt("c.setStrokeColor", 456, 452, 1, << c_setStrokeColor("black") >>),
    Stmt("c.setLineWidth", 457, 452, 1, << c_setLineWidth(6) >>),
    Stmt("c.rect", 458, 452, 1, << c_rect(260 * mm, 64 * mm, 20 * mm, 10 * mm, 1, 1) >>),
    Stmt("c.setFillColor", 459, 452, 1, << c_setFillColor("white") >>),
    Stmt("c.setFont", 460, 452, 1, << c_setFont("Helvetica-Bold", 50) >>),
    Stmt("c.drawCentredString", 462, 452, 1, << c_drawCentredString(270 * mm, 68 * mm, <<"G1">>) >>),
    Stmt("c.setFillColor", 455, 452, 2, << c_setFillColor(HexColor.C_GEN) >>),
    Stmt("c.setStrokeColor", 456, 452, 2, << c_setStrokeColor("black") >>),
    Stmt("c.setLineWidth", 457, 452, 2, << c_setLineWidth(6) >>),
    Stmt("c.rect", 458, 452, 2, << c_rect(260 * mm, 77 * mm, 20 * mm, 10 * mm, 1, 1) >>),
    Stmt("c.setFillColor", 459, 452, 2, << c_setFillColor("white") >>),
    Stmt("c.setFont", 460, 452, 2, << c_setFont("Helvetica-Bold", 50) >>),
    Stmt("c.drawCentredString", 462, 452, 2, << c_drawCentredString(270 * mm, 81 * mm, <<"G2">>) >>),
    Stmt("c.setFillColor", 455, 452, 3, << c_setFillColor(HexColor.C_GEN) >>),
    Stmt("c.setStrokeColor", 456, 452, 3, << c_setStrokeColor("black") >>),
    Stmt("c.setLineWidth", 457, 452, 3, << c_setLineWidth(6) >>),
    Stmt("c.rect", 458, 452, 3, << c_rect(260 * mm, 90 * mm, 20 * mm, 10 * mm, 1, 1) >>),
    Stmt("c.setFillColor", 459, 452, 3, << c_setFillColor("white") >>),
    Stmt("c.setFont", 460, 452, 3, << c_setFont("Helvetica-Bold", 50) >>),
    Stmt("c.drawCentredString", 462, 452, 3, << c_drawCentredString(270 * mm, 94 * mm, <<"G3(", "N+1", ")">>) >>),
    Stmt("c.setStrokeColor", 469, 0, 0, << c_setStrokeColor(HexColor.C_COOL_SUPPLY) >>),
    Stmt("c.setFillColor", 470, 0, 0, << c_setFillColor(HexColor.C_LIGHT_BLUE) >>),
    Stmt("c.setLineWidth", 471, 0, 0, << c_setLineWidth(15) >>),
    Stmt("c.setDash", 472, 0, 0, << c_setDash(4 * pt, 2 * pt) >>),
    Stmt("c.rect", 473, 0, 0, << c_rect(256 * mm, 114 * mm, 28 * mm, 74 * mm, 1, 1) >>),
    Stmt("c.setDash", 474, 0, 0, << c_setDashSolid >>),
    Stmt("c.setFillColor", 475, 0, 0, << c_setFillColor(HexColor.C_COOL_SUPPLY) >>),
    Stmt("c.setFont", 476, 0, 0, << c_setFont("Helvetica-Bold", 60) >>),
    Stmt("c.drawCentredString", 477, 0, 0, << c_drawCentredString(270 * mm, 182 * mm, <<"COOLING">>) >>),
    Stmt("c.drawCentredString", 478, 0, 0, << c_drawCentredString(270 * mm, 178 * mm, <<"YARD">>) >>),
    Stmt("c.setFont", 479, 0, 0, << c_setFont("Helvetica", 50) >>),
    Stmt("c.drawCentredString", 480, 0, 0, << c_drawCentredString(270 * mm, 173 * mm, <<"Cooling Towers">>) >>),
    Stmt("draw_north_arrow", 483, 0, 0, draw_north_arrow(275 * mm, 188 * mm)),
    Stmt("c.setStrokeColor", 488, 0, 0, << c_setStrokeColor("black") >>),
    Stmt("c.setFillColor", 489, 0, 0, << c_setFillColor("white") >>),
    Stmt("c.setLineWidth", 490, 0, 0, << c_setLineWidth(5) >>),
    Stmt("c.rect", 491, 0, 0, << c_rect(231 * mm, 54 * mm, 50 * mm, 34 * mm, 1, 1) >>),
    Stmt("c.setFillColor", 492, 0, 0, << c_setFillColor("black") >>),
    Stmt("c.setFont", 493, 0, 0, << c_setFont("Helvetica-Bold", 60) >>),
    Stmt("c.drawString", 494, 0, 0, << c_drawString(233 * mm, 83 * mm, <<"LEGEND">>) >>),
    Stmt("c.setLineWidth", 495, 0, 0, << c_setLineWidth(3) >>),
    Stmt("c.line", 496, 0, 0, << c_line(233 * mm, 82 * mm, 279 * mm, 82 * mm) >>),
    Stmt("draw_legend_item", 498, 0, 0, draw_legend_item(233 * mm, 77 * mm, HexColor.C_RACK_FILL, <<"Server Rack (42U)">>, "rect")),
    Stmt("draw_legend_item", 499, 0, 0, draw_legend_item(233 * mm, 72 * mm, HexColor.C_COLD, <<"Cold Aisle Containment">>, "dash")),
    Stmt("draw_legend_item", 500, 0, 0, draw_legend_item(233 * mm, 67 * mm, HexColor.C_HOT, <<"Hot Aisle Containment">>, "dash")),
    Stmt("draw_legend_item", 501, 0, 0, draw_legend_item(233 * mm, 62 * mm, HexColor.C_GEN, <<"Generator (", "N+1", ")">>, "rect")),
    Stmt("draw_legend_item", 502, 0, 0, draw_legend_item(233 * mm, 57 * mm, HexColor.C_LIGHT_PURPLE, <<"UPS Room (A/B Redundant)">>, "rect")),
    Stmt("c.setFont", 507, 0, 0, << c_setFont("Helvetica-Bold", 60) >>),
    Stmt("c.setFillColor", 508, 0, 0, << c_setFillColor("black") >>),
    Stmt("c.drawString", 509, 0, 0, << c_drawString(16 * mm, 84 * mm, <<"GENERAL NOTES:">>) >>),
    Stmt("c.setFont", 520, 0, 0, << c_setFont("Helvetica", 50) >>),
    Stmt("c.drawString", 522, 521, 1, << c_drawString(16 * mm, 78 * mm, <<"1. 16 racks total: 4 rows x 4 racks, hot/cold aisle containment">>) >>),
    Stmt("c.drawString", 522, 521, 2, << c_drawString(16 * mm, (748 * mm) \div 10, <<"2. Raised floor: 600mm plenum for under-floor cooling distribution">>) >>),
    Stmt("c.drawString", 522, 521, 3, << c_drawString(16 * mm, (716 * mm) \div 10, <<"3. Dual power feeds (A+B) to each rack via redundant PDUs">>) >>),
    Stmt("c.drawString", 522, 521, 4, << c_drawString(16 * mm, (684 * mm) \div 10, <<"4. Concurrent maintainability: all mechanical/electrical serviceable">>) >>),
    Stmt("c.drawString", 522, 521, 5, << c_drawString(16 * mm, (652 * mm) \div 10, <<"   without IT load interruption (Tier III requirement)">>) >>),
    Stmt("c.drawString", 522, 521, 6, << c_drawString(16 * mm, 62 * mm, <<"5. Fire suppression: VESDA detection + Novec 1230 clean agent">>) >>),
    Stmt("c.drawString", 522, 521, 7, << c_drawString(16 * mm, (588 * mm) \div 10, <<"6. Physical security: mantrap entry, biometric + card access">>) >>),
    Stmt("c.drawString", 522, 521, 8, << c_drawString(16 * mm, (556 * mm) \div 10, <<"7. ", "N+1", " redundancy: generators, UPS, chillers, CRAHs">>) >>)
  >>

(* draw_electrical: the calls of the body after the sheet frame, in order: the source *)
(* line of each call, the for statement it is in and its iteration.                    *)
draw_electrical_calls ==
  <<
    Stmt("c.setFillColor", 543, 541, 2, << c_setFillColor(HexColor.C_ELEC_A) >>),
    Stmt("c.setStrokeColor", 544, 541, 2, << c_setStrokeColor("black") >>),
    Stmt("c.setLineWidth", 545, 541, 2, << c_setLineWidth(10) >>),
    Stmt("c.rect", 546, 541, 2, << c_rect((735 * mm) \div 10, 186 * mm, 40 * mm, 8 * mm, 1, 1) >>),
    Stmt("c.setFillColor", 547, 541, 2, << c_setFillColor("white") >>),
    Stmt("c.setFont", 548, 541, 2, << c_setFont("Helvetica-Bold", 60) >>),
    Stmt("c.drawCentredString", 549, 541, 2, << c_drawCentredString((935 * mm) \div 10, 190 * mm, <<"UTILITY FEED A">>) >>),
    Stmt("c.setFont", 550, 541, 2, << c_setFont("Helvetica", 50) >>),
    Stmt("c.drawCentredString", 551, 541, 2, << c_drawCentredString((935 * mm) \div 10, 187 * mm, <<"20kV / 50Hz">>) >>),
    Stmt("c.setFillColor", 543, 541, 3, << c_setFillColor(HexColor.C_ELEC_B) >>),
    Stmt("c.setStrokeColor", 544, 541, 3, << c_setStrokeColor("black") >>),
    Stmt("c.setLineWidth", 545, 541, 3, << c_setLineWidth(10) >>),
    Stmt("c.rect", 546, 541, 3, << c_rect((1835 * mm) \div 10, 186 * mm, 40 * mm, 8 * mm, 1, 1) >>),
    Stmt("c.setFillColor", 547, 541, 3, << c_setFillColor("white") >>),
    Stmt("c.setFont", 548, 541, 3, << c_setFont("Helvetica-Bold", 60) >>),
    Stmt("c.drawCentredString", 549, 541, 3, << c_drawCentredString((2035 * mm) \div 10, 190 * mm, <<"UTILITY FEED B">>) >>),
    Stmt("c.setFont", 550, 541, 3, << c_setFont("Helvetica", 50) >>),
    Stmt("c.drawCentredString", 551, 541, 3, << c_drawCentredString((2035 * mm) \div 10, 187 * mm, <<"20kV / 50Hz">>) >>),
    Stmt("c.setStrokeColor", 555, 0, 0, << c_setStrokeColor(HexColor.C_ELEC_A) >>),
    Stmt("c.setLineWidth", 556, 0, 0, << c_setLineWidth(30) >>),
    Stmt("c.line", 557, 0, 0, << c_line((635 * mm) \div 10, 170 * mm, (1235 * mm) \div 10, 170 * mm) >>),
    Stmt("c.setFont", 558, 0, 0, << c_setFont("Helvetica-Bold", 50) >>),
    Stmt("c.setFillColor", 559, 0, 0, << c_setFillColor(HexColor.C_ELEC_A) >>),
    Stmt("c.drawString", 560, 0, 0, << c_drawString((635 * mm) \div 10, 172 * mm, <<"MV SWGR-A (20kV)">>) >>),
    Stmt("c.setStrokeColor", 562, 0, 0, << c_setStrokeColor(HexColor.C_ELEC_B) >>),
    Stmt("c.setLineWidth", 563, 0, 0, << c_setLineWidth(30) >>),
    Stmt("c.line", 564, 0, 0, << c_line((1735 * mm) \div 10, 170 * mm, (2335 * mm) \div 10, 170 * mm) >>),
    Stmt("c.setFillColor", 565, 0, 0, << c_setFillColor(HexColor.C_ELEC_B) >>),
    Stmt("c.drawString", 566, 0, 0, << c_drawString((1735 * mm) \div 10, 172 * mm, <<"MV SWGR-B (20kV)">>) >>),
    Stmt("c.setStrokeColor", 570, 569, 1, << c_setStrokeColor(HexColor.C_ELEC_A) >>),
    Stmt("c.setLineWidth", 571, 569, 1, << c_setLineWidth(15) >>),
    Stmt("c.line", 572, 569, 1, << c_line((935 * mm) \div 10, 186 * mm, (935 * mm) \div 10, 170 * mm) >>),
    Stmt("c.setFillColor", 575, 569, 1, << c_setFillColor("white") >>),
    Stmt("c.setStrokeColor", 576, 569, 1, << c_setStrokeColor("black") >>),
    Stmt("c.setLineWidth", 577, 569, 1, << c_setLineWidth(8) >>),
    Stmt("c.rect", 578, 569, 1, << c_rect((905 * mm) \div 10, 176 * mm, 6 * mm, 4 * mm, 1, 1) >>),
    Stmt("c.setFillColor", 579, 569, 1, << c_setFillColor("black") >>),
    Stmt("c.setFont", 580, 569, 1, << c_setFont("Helvetica-Bold", 40) >>),
    Stmt("c.drawCentredString", 581, 569, 1, << c_drawCentredString((935 * mm) \div 10, (1775 * mm) \div 10, <<"CB">>) >>),
    Stmt("c.setStrokeColor", 570, 569, 2, << c_setStrokeColor(HexColor.C_ELEC_B) >>),
    Stmt("c.setLineWidth", 571, 569, 2, << c_setLineWidth(15) >>),
    Stmt("c.line", 572, 569, 2, << c_line((2035 * mm) \div 10, 186 * mm, (2035 * mm) \div 10, 170 * mm) >>),
    Stmt("c.setFillColor", 575, 569, 2, << c_setFillColor("white") >>),
    Stmt("c.setStrokeColor", 576, 569, 2, << c_setStrokeColor("black") >>),
    Stmt("c.setLineWidth", 577, 569, 2, << c_setLineWidth(8) >>),
    Stmt("c.rect", 578, 569, 2, << c_rect((2005 * mm) \div 10, 176 * mm, 6 * mm, 4 * mm, 1, 1) >>),
    Stmt("c.setFillColor", 579, 569, 2, << c_setFillColor("black") >>),
    Stmt("c.setFont", 580, 569, 2, << c_setFont("Helvetica-Bold", 40) >>),
    Stmt("c.drawCentredString", 581, 569, 2, << c_drawCentredString((2035 * mm) \div 10, (1775 * mm) \div 10, <<"CB">>) >>),
    Stmt("c.setFillColor", 590, 588, 1, << c_setFillColor(HexColor.C_LIGHT_YELLOW) >>),
    Stmt("c.setStrokeColor", 591, 588, 1, << c_setStrokeColor(HexColor.C_GEN) >>),
    Stmt("c.setLineWidth", 592, 588, 1, << c_setLineWidth(15) >>),
    Stmt("c.circle", 593, 588, 1, << c_circle((485 * mm) \div 10, 158 * mm, 8 * mm, 1, 1) >>),
    Stmt("c.setFillColor", 594, 588, 1, << c_setFillColor(HexColor.C_GEN) >>),
    Stmt("c.setFont", 595, 588, 1, << c_setFont("Helvetica-Bold", 80) >>),
    Stmt("c.drawCentredString", 596, 588, 1, << c_drawCentredString((485 * mm) \div 10, 156 * mm, <<"G">>) >>),
    Stmt("c.setFont", 597, 588, 1, << c_setFont("Helvetica", 50) >>),
    Stmt("c.drawCentredString", 598, 588, 1, << c_drawCentredString((485 * mm) \div 10, 148 * mm, <<"GEN-A">>) >>),
    Stmt("c.drawCentredString", 599, 588, 1, << c_drawCentredString((485 * mm) \div 10, 144 * mm, <<"1500kVA">>) >>),
    Stmt("c.setStrokeColor", 601, 588, 1, << c_setStrokeColor(HexColor.C_GEN) >>),
    Stmt("c.setLineWidth", 602, 588, 1, << c_setLineWidth(10) >>),
    Stmt("c.line", 603, 588, 1, << c_line((485 * mm) \div 10, 166 * mm, (485 * mm) \div 10, 170 * mm) >>),
    Stmt("c.line", 605, 588, 1, << c_line((485 * mm) \div 10, 170 * mm, (935 * mm) \div 10, 170 * mm) >>),
    Stmt("c.setFillColor", 590, 588, 2, << c_setFillColor(HexColor.C_LIGHT_YELLOW) >>),
    Stmt("c.setStrokeColor", 591, 588, 2, << c_setStrokeColor(HexColor.C_GEN) >>),
    Stmt("c.setLineWidth", 592, 588, 2, << c_setLineWidth(15) >>),
    Stmt("c.circle", 593, 588, 2, << c_circle((2485 * mm) \div 10, 158 * mm, 8 * mm, 1, 1) >>),
    Stmt("c.setFillColor", 594, 588, 2, << c_setFillColor(HexColor.C_GEN) >>),
    Stmt("c.setFont", 595, 588, 2, << c_setFont("Helvetica-Bold", 80) >>),
    Stmt("c.drawCentredString", 596, 588, 2, << c_drawCentredString((2485 * mm) \div 10, 156 * mm, <<"G">>) >>),
    Stmt("c.setFont", 597, 588, 2, << c_setFont("Helvetica", 50) >>),
    Stmt("c.drawCentredString", 598, 588, 2, << c_drawCentredString((2485 * mm) \div 10, 148 * mm, <<"GEN-B">>) >>),
    Stmt("c.drawCentredString", 599, 588, 2, << c_drawCentredString((2485 * mm) \div 10, 144 * mm, <<"1500kVA">>) >>),
    Stmt("c.setStrokeColor", 601, 588, 2, << c_setStrokeColor(HexColor.C_GEN) >>),
    Stmt("c.setLineWidth", 602, 588, 2, << c_setLineWidth(10) >>),
    Stmt("c.line", 603, 588, 2, << c_line((2485 * mm) \div 10, 166 * mm, (2485 * mm) \div 10, 170 * mm) >>),
    Stmt("c.line", 605, 588, 2, << c_line((2485 * mm) \div 10, 170 * mm, (2035 * mm) \div 10, 170 * mm) >>),
    Stmt("c.setFillColor", 609, 0, 0, << c_setFillColor(HexColor.C_LIGHT_YELLOW) >>),
    Stmt("c.setStrokeColor", 610, 0, 0, << c_setStrokeColor(HexColor.C_GEN) >>),
    Stmt("c.setLineWidth", 611, 0, 0, << c_setLineWidth(10) >>),
    Stmt("c.setDash", 612, 0, 0, << c_setDash(3 * pt, 2 * pt) >>),
    Stmt("c.circle", 613, 0, 0, << c_circle((1485 * mm) \div 10, 158 * mm, 8 * mm, 1, 1) >>),
    Stmt("c.setDash", 614, 0, 0, << c_setDashSolid >>),
    Stmt("c.setFillColor", 615, 0, 0, << c_setFillColor(HexColor.C_GEN) >>),
    Stmt("c.setFont", 616, 0, 0, << c_setFont("Helvetica-Bold", 80) >>),
    Stmt("c.drawCentredString", 617, 0, 0, << c_drawCentredString((1485 * mm) \div 10, 156 * mm, <<"G">>) >>),
    Stmt("c.setFont", 618, 0, 0, << c_setFont("Helvetica", 50) >>),
    Stmt("c.drawCentredString", 619, 0, 0, << c_drawCentredString((1485 * mm) \div 10, 148 * mm, <<"GEN-S (", "N+1", ")">>) >>),
    Stmt("c.drawCentredString", 620, 0, 0, << c_drawCentredString((1485 * mm) \div 10, 144 * mm, <<"1500kVA SPARE">>) >>),
    Stmt("c.setStrokeColor", 625, 624, 1, << c_setStrokeColor(HexColor.C_ELEC_A) >>),
    Stmt("c.setLineWidth", 626, 624, 1, << c_setLineWidth(10) >>),
    Stmt("c.line", 627, 624, 1, << c_line((935 * mm) \div 10, 170 * mm, (935 * mm) \div 10, 140 * mm) >>),
    Stmt("c.setFillColor", 629, 624, 1, << c_setFillColor("white") >>),
    Stmt("c.setStrokeColor", 630, 624, 1, << c_setStrokeColor(HexColor.C_ELEC_A) >>),
    Stmt("c.setLineWidth", 631, 624, 1, << c_setLineWidth(12) >>),
    Stmt("c.circle", 632, 624, 1, << c_circle((935 * mm) \div 10, 137 * mm, 5 * mm, 1, 1) >>),
    Stmt("c.circle", 633, 624, 1, << c_circle((935 * mm) \div 10, 131 * mm, 5 * mm, 1, 1) >>),
    Stmt("c.setFillColor", 634, 624, 1, << c_setFillColor(HexColor.C_ELEC_A) >>),
    Stmt("c.setFont", 635, 624, 1, << c_setFont("Helvetica", 50) >>),
    Stmt("c.drawCentredString", 636, 624, 1, << c_drawCentredString((935 * mm) \div 10, 123 * mm, <<"TX-A">>) >>),
    Stmt("c.drawCentredString", 637, 624, 1, << c_drawCentredString((935 * mm) \div 10, 119 * mm, <<"20kV/415V Dyn11">>) >>),
    Stmt("c.line", 638, 624, 1, << c_line((935 * mm) \div 10, 126 * mm, (935 * mm) \div 10, 116 * mm) >>),
    Stmt("c.setStrokeColor", 625, 624, 2, << c_setStrokeColor(HexColor.C_ELEC_B) >>),
    Stmt("c.setLineWidth", 626, 624, 2, << c_setLineWidth(10) >>),
    Stmt("c.line", 627, 624, 2, << c_line((2035 * mm) \div 10, 170 * mm, (2035 * mm) \div 10, 140 * mm) >>),
    Stmt("c.setFillColor", 629, 624, 2, << c_setFillColor("white") >>),
    Stmt("c.setStrokeColor", 630, 624, 2, << c_setStrokeColor(HexColor.C_ELEC_B) >>),
    Stmt("c.setLineWidth", 631, 624, 2, << c_setLineWidth(12) >>),
    Stmt("c.circle", 632, 624, 2, << c_circle((2035 * mm) \div 10, 137 * mm, 5 * mm, 1, 1) >>),
    Stmt("c.circle", 633, 624, 2, << c_circle((2035 * mm) \div 10, 131 * mm, 5 * mm, 1, 1) >>),
    Stmt("c.setFillColor", 634, 624, 2, << c_setFillColor(HexColor.C_ELEC_B) >>),
    Stmt("c.setFont", 635, 624, 2, << c_setFont("Helvetica", 50) >>),
    Stmt("c.drawCentredString", 636, 624, 2, << c_drawCentredString((2035 * mm) \div 10, 123 * mm, <<"TX-B">>) >>),
    Stmt("c.drawCentredString", 637, 624, 2, << c_drawCentredString((2035 * mm) \div 10, 119 * mm, <<"20kV/415V Dyn11">>) >>),
    Stmt("c.line", 638, 624, 2, << c_line((2035 * mm) \div 10, 126 * mm, (2035 * mm) \div 10, 116 * mm) >>),
    Stmt("c.setStrokeColor", 644, 642, 2, << c_setStrokeColor(HexColor.C_ELEC_A) >>),
    Stmt("c.setLineWidth", 645, 642, 2, << c_setLineWidth(30) >>),
    Stmt("c.line", 646, 642, 2, << c_line((635 * mm) \div 10, 108 * mm, (1235 * mm) \div 10, 108 * mm) >>),
    Stmt("c.setFont", 647, 642, 2, << c_setFont("Helvetica-Bold", 50) >>),
    Stmt("c.setFillColor", 648, 642, 2, << c_setFillColor(HexColor.C_ELEC_A) >>),
    Stmt("c.drawString", 649, 642, 2, << c_drawString((635 * mm) \div 10, 110 * mm, <<"LV SWBD-A (415V)">>) >>),
    Stmt("c.setStrokeColor", 644, 642, 3, << c_setStrokeColor(HexColor.C_ELEC_B) >>),
    Stmt("c.setLineWidth", 645, 642, 3, << c_setLineWidth(30) >>),
    Stmt("c.line", 646, 642, 3, << c_line((1735 * mm) \div 10, 108 * mm, (2335 * mm) \div 10, 108 * mm) >>),
    Stmt("c.setFont", 647, 642, 3, << c_setFont("Helvetica-Bold", 50) >>),
    Stmt("c.setFillColor", 648, 642, 3, << c_setFillColor(HexColor.C_ELEC_B) >>),
    Stmt("c.drawString", 649, 642, 3, << c_drawString((1735 * mm) \div 10, 110 * mm, <<"LV SWBD-B (415V)">>) >>),
    Stmt("c.setStrokeColor", 657, 655, 1, << c_setStrokeColor(HexColor.C_ELEC_A) >>),
    Stmt("c.setLineWidth", 658, 655, 1, << c_setLineWidth(10) >>),
    Stmt("c.line", 659, 655, 1, << c_line((735 * mm) \div 10, 108 * mm, (735 * mm) \div 10, 91 * mm) >>),
    Stmt("c.setLineWidth", 662, 655, 1, << c_setLineWidth(8) >>),
    Stmt("c.setFillColor", 665, 655, 1, << c_setFillColor(HexColor.C_LIGHT_PURPLE) >>),
    Stmt("c.rect", 666, 655, 1, << c_rect((655 * mm) \div 10, 83 * mm, 16 * mm, 8 * mm, 1, 1) >>),
    Stmt("c.setFillColor", 669, 655, 1, << c_setFillColor(HexColor.C_ELEC_A) >>),
    Stmt("c.setFont", 670, 655, 1, << c_setFont("Helvetica-Bold", 50) >>),
    Stmt("c.drawCentredString", 674, 655, 1, << c_drawCentredString((735 * mm) \div 10, 86 * mm, <<"UPS-A1">>) >>),
    Stmt("c.setFont", 677, 655, 1, << c_setFont("Helvetica", 40) >>),
    Stmt("c.setFillColor", 678, 655, 1, << c_setFillColor("#666666") >>),
    Stmt("c.drawCentredString", 679, 655, 1, << c_drawCentredString((735 * mm) \div 10, 79 * mm, <<"BATT">>) >>),
    Stmt("c.setStrokeColor", 657, 655, 2, << c_setStrokeColor(HexColor.C_ELEC_A) >>),
    Stmt("c.setLineWidth", 658, 655, 2, << c_setLineWidth(10) >>),
    Stmt("c.line", 659, 655, 2, << c_line((935 * mm) \div 10, 108 * mm, (935 * mm) \div 10, 91 * mm) >>),
    Stmt("c.setLineWidth", 662, 655, 2, << c_setLineWidth(8) >>),
    Stmt("c.setFillColor", 665, 655, 2, << c_setFillColor(HexColor.C_LIGHT_PURPLE) >>),
    Stmt("c.rect", 666, 655, 2, << c_rect((855 * mm) \div 10, 83 * mm, 16 * mm, 8 * mm, 1, 1) >>),
    Stmt("c.setFillColor", 669, 655, 2, << c_setFillColor(HexColor.C_ELEC_A) >>),
    Stmt("c.setFont", 670, 655, 2, << c_setFont("Helvetica-Bold", 50) >>),
    Stmt("c.drawCentredString", 674, 655, 2, << c_drawCentredString((935 * mm) \div 10, 86 * mm, <<"UPS-A2">>) >>),
    Stmt("c.setFont", 677, 655, 2, << c_setFont("Helvetica", 40) >>),
    Stmt("c.setFillColor", 678, 655, 2, << c_setFillColor("#666666") >>),
    Stmt("c.drawCentredString", 679, 655, 2, << c_drawCentredString((935 * mm) \div 10, 79 * mm, <<"BATT">>) >>),
    Stmt("c.setStrokeColor", 657, 655, 3, << c_setStrokeColor(HexColor.C_ELEC_A) >>),
    Stmt("c.setLineWidth", 658, 655, 3, << c_setLineWidth(10) >>),
    Stmt("c.line", 659, 655, 3, << c_line((1135 * mm) \div 10, 108 * mm, (1135 * mm) \div 10, 91 * mm) >>),
    Stmt("c.setLineWidth", 662, 655, 3, << c_setLineWidth(5) >>),
    Stmt("c.setDash", 664, 655, 3, << c_setDash(3 * pt, 2 * pt) >>),
    Stmt("c.setFillColor", 665, 655, 3, << c_setFillColor(HexColor.C_LIGHT_PURPLE) >>),
    Stmt("c.rect", 666, 655, 3, << c_rect((1055 * mm) \div 10, 83 * mm, 16 * mm, 8 * mm, 1, 1) >>),
    Stmt("c.setDash", 668, 655, 3, << c_setDashSolid >>),
    Stmt("c.setFillColor", 669, 655, 3, << c_setFillColor(HexColor.C_ELEC_A) >>),
    Stmt("c.setFont", 670, 655, 3, << c_setFont("Helvetica-Bold", 50) >>),
    Stmt("c.drawCentredString", 674, 655, 3, << c_drawCentredString((1135 * mm) \div 10, 86 * mm, <<"UPS-A3(", "N+1", ")">>) >>),
    Stmt("c.setFont", 677, 655, 3, << c_setFont("Helvetica", 40) >>),
    Stmt("c.setFillColor", 678, 655, 3, << c_setFillColor("#666666") >>),
    Stmt("c.drawCentredString", 679, 655, 3, << c_drawCentredString((1135 * mm) \div 10, 79 * mm, <<"BATT">>) >>),
    Stmt("c.setStrokeColor", 657, 655, 5, << c_setStrokeColor(HexColor.C_ELEC_B) >>),
    Stmt("c.setLineWidth", 658, 655, 5, << c_setLineWidth(10) >>),
    Stmt("c.line", 659, 655, 5, << c_line((1835 * mm) \div 10, 108 * mm, (1835 * mm) \div 10, 91 * mm) >>),
    Stmt("c.setLineWidth", 662, 655, 5, << c_setLineWidth(8) >>),
    Stmt("c.setFillColor", 665, 655, 5, << c_setFillColor(HexColor.C_LIGHT_PURPLE) >>),
    Stmt("c.rect", 666, 655, 5, << c_rect((1755 * mm) \div 10, 83 * mm, 16 * mm, 8 * mm, 1, 1) >>),
    Stmt("c.setFillColor", 669, 655, 5, << c_setFillColor(HexColor.C_ELEC_B) >>),
    Stmt("c.setFont", 670, 655, 5, << c_setFont("Helvetica-Bold", 50) >>),
    Stmt("c.drawCentredString", 674, 655, 5, << c_drawCentredString((1835 * mm) \div 10, 86 * mm, <<"UPS-B1">>) >>),
    Stmt("c.setFont", 677, 655, 5, << c_setFont("Helvetica", 40) >>),
    Stmt("c.setFillColor", 678, 655, 5, << c_setFillColor("#666666") >>),
    Stmt("c.drawCentredString", 679, 655, 5, << c_drawCentredString((1835 * mm) \div 10, 79 * mm, <<"BATT">>) >>),
    Stmt("c.setStrokeColor", 657, 655, 6, << c_setStrokeColor(HexColor.C_ELEC_B) >>),
    Stmt("c.setLineWidth", 658, 655, 6, << c_setLineWidth(10) >>),
    Stmt("c.line", 659, 655, 6, << c_line((2035 * mm) \div 10, 108 * mm, (2035 * mm) \div 10, 91 * mm) >>),
    Stmt("c.setLineWidth", 662, 655, 6, << c_setLineWidth(8) >>),
    Stmt("c.setFillColor", 665, 655, 6, << c_setFillColor(HexColor.C_LIGHT_PURPLE) >>),
    Stmt("c.rect", 666, 655, 6, << c_rect((1955 * mm) \div 10, 83 * mm, 16 * mm, 8 * mm, 1, 1) >>),
    Stmt("c.setFillColor", 669, 655, 6, << c_setFillColor(HexColor.C_ELEC_B) >>),
    Stmt("c.setFont", 670, 655, 6, << c_setFont("Helvetica-Bold", 50) >>),
    Stmt("c.drawCentredString", 674, 655, 6, << c_drawCentredString((2035 * mm) \div 10, 86 * mm, <<"UPS-B2">>) >>),
    Stmt("c.setFont", 677, 655, 6, << c_setFont("Helvetica", 40) >>),
    Stmt("c.setFillColor", 678, 655, 6, << c_setFillColor("#666666") >>),
    Stmt("c.drawCentredString", 679, 655, 6, << c_drawCentredString((2035 * mm) \div 10, 79 * mm, <<"BATT">>) >>),
    Stmt("c.setStrokeColor", 657, 655, 7, << c_setStrokeColor(HexColor.C_ELEC_B) >>),
    Stmt("c.setLineWidth", 658, 655, 7, << c_setLineWidth(10) >>),
    Stmt("c.line", 659, 655, 7, << c_line((2235 * mm) \div 10, 108 * mm, (2235 * mm) \div 10, 91 * mm) >>),
    Stmt("c.setLineWidth", 662, 655, 7, << c_setLineWidth(5) >>),
    Stmt("c.setDash", 664, 655, 7, << c_setDash(3 * pt, 2 * pt) >>),
    Stmt("c.setFillColor", 665, 655, 7, << c_setFillColor(HexColor.C_LIGHT_PURPLE) >>),
    Stmt("c.rect", 666, 655, 7, << c_rect((2155 * mm) \div 10, 83 * mm, 16 * mm, 8 * mm, 1, 1) >>),
    Stmt("c.setDash", 668, 655, 7, << c_setDashSolid >>),
    Stmt("c.setFillColor", 669, 655, 7, << c_setFillColor(HexColor.C_ELEC_B) >>),
    Stmt("c.setFont", 670, 655, 7, << c_setFont("Helvetica-Bold", 50) >>),
    Stmt("c.drawCentredString", 674, 655, 7, << c_drawCentredString((2235 * mm) \div 10, 86 * mm, <<"UPS-B3(", "N+1", ")">>) >>),
    Stmt("c.setFont", 677, 655, 7, << c_setFont("Helvetica", 40) >>),
    Stmt("c.setFillColor", 678, 655, 7, << c_setFillColor("#666666") >>),
    Stmt("c.drawCentredString", 679, 655, 7, << c_drawCentredString((2235 * mm) \div 10, 79 * mm, <<"BATT">>) >>),
    Stmt("c.setStrokeColor", 683, 0, 0, << c_setStrokeColor("black") >>),
    Stmt("c.setLineWidth", 684, 0, 0, << c_setLineWidth(15) >>),
    Stmt("c.line", 685, 0, 0, << c_line((935 * mm) \div 10, 83 * mm, (935 * mm) \div 10, 69 * mm) >>),
    Stmt("c.line", 686, 0, 0, << c_line((2035 * mm) \div 10, 83 * mm, (2035 * mm) \div 10, 69 * mm) >>),
    Stmt("c.setFillColor", 690, 688, 1, << c_setFillColor("#d5dbdb") >>),
    Stmt("c.setStrokeColor", 691, 688, 1, << c_setStrokeColor("black") >>),
    Stmt("c.setLineWidth", 692, 688, 1, << c_setLineWidth(8) >>),
    Stmt("c.rect", 693, 688, 1, << c_rect((1105 * mm) \div 10, 63 * mm, 16 * mm, 6 * mm, 1, 1) >>),
    Stmt("c.setFillColor", 694, 688, 1, << c_setFillColor("black") >>),
    Stmt("c.setFont", 695, 688, 1, << c_setFont("Helvetica-Bold", 50) >>),
    Stmt("c.drawCentredString", 696, 688, 1, << c_drawCentredString((1185 * mm) \div 10, 65 * mm, <<"STS-1">>) >>),
    Stmt("c.setStrokeColor", 698, 688, 1, << c_setStrokeColor(HexColor.C_ELEC_A) >>),
    Stmt("c.setLineWidth", 699, 688, 1, << c_setLineWidth(5) >>),
    Stmt("c.line", 700, 688, 1, << c_line((845 * mm) \div 10, 83 * mm, (1165 * mm) \div 10, 69 * mm) >>),
    Stmt("c.setStrokeColor", 701, 688, 1, << c_setStrokeColor(HexColor.C_ELEC_B) >>),
    Stmt("c.line", 702, 688, 1, << c_line((1945 * mm) \div 10, 83 * mm, (1205 * mm) \div 10, 69 * mm) >>),
    Stmt("c.setFillColor", 690, 688, 2, << c_setFillColor("#d5dbdb") >>),
    Stmt("c.setStrokeColor", 691, 688, 2, << c_setStrokeColor("black") >>),
    Stmt("c.setLineWidth", 692, 688, 2, << c_setLineWidth(8) >>),
    Stmt("c.rect", 693, 688, 2, << c_rect((1305 * mm) \div 10, 63 * mm, 16 * mm, 6 * mm, 1, 1) >>),
    Stmt("c.setFillColor", 694, 688, 2, << c_setFillColor("black") >>),
    Stmt("c.setFont", 695, 688, 2, << c_setFont("Helvetica-Bold", 50) >>),
    Stmt("c.drawCentredString", 696, 688, 2, << c_drawCentredString((1385 * mm) \div 10, 65 * mm, <<"STS-2">>) >>),
    Stmt("c.setStrokeColor", 698, 688, 2, << c_setStrokeColor(HexColor.C_ELEC_A) >>),
    Stmt("c.setLineWidth", 699, 688, 2, << c_setLineWidth(5) >>),
    Stmt("c.line", 700, 688, 2, << c_line((905 * mm) \div 10, 83 * mm, (1365 * mm) \div 10, 69 * mm) >>),
    Stmt("c.setStrokeColor", 701, 688, 2, << c_setStrokeColor(HexColor.C_ELEC_B) >>),
    Stmt("c.line", 702, 688, 2, << c_line((2005 * mm) \div 10, 83 * mm, (1405 * mm) \div 10, 69 * mm) >>),
    Stmt("c.setFillColor", 690, 688, 3, << c_setFillColor("#d5dbdb") >>),
    Stmt("c.setStrokeColor", 691, 688, 3, << c_setStrokeColor("black") >>),
    Stmt("c.setLineWidth", 692, 688, 3, << c_setLineWidth(8) >>),
    Stmt("c.rect", 693, 688, 3, << c_rect((1505 * mm) \div 10, 63 * mm, 16 * mm, 6 * mm, 1, 1) >>),
    Stmt("c.setFillColor", 694, 688, 3, << c_setFillColor("black") >>),
    Stmt("c.setFont", 695, 688, 3, << c_setFont("Helvetica-Bold", 50) >>),
    Stmt("c.drawCentredString", 696, 688, 3, << c_drawCentredString((1585 * mm) \div 10, 65 * mm, <<"STS-3">>) >>),
    Stmt("c.setStrokeColor", 698, 688, 3, << c_setStrokeColor(HexColor.C_ELEC_A) >>),
    Stmt("c.setLineWidth", 699, 688, 3, << c_setLineWidth(5) >>),
    Stmt("c.line", 700, 688, 3, << c_line((965 * mm) \div 10, 83 * mm, (1565 * mm) \div 10, 69 * mm) >>),
    Stmt("c.setStrokeColor", 701, 688, 3, << c_setStrokeColor(HexColor.C_ELEC_B) >>),
    Stmt("c.line", 702, 688, 3, << c_line((2065 * mm) \div 10, 83 * mm, (1605 * mm) \div 10, 69 * mm) >>),
    Stmt("c.setFillColor", 690, 688, 4, << c_setFillColor("#d5dbdb") >>),
    Stmt("c.setStrokeColor", 691, 688, 4, << c_setStrokeColor("black") >>),
    Stmt("c.setLineWidth", 692, 688, 4, << c_setLineWidth(8) >>),
    Stmt("c.rect", 693, 688, 4, << c_rect((1705 * mm) \div 10, 63 * mm, 16 * mm, 6 * mm, 1, 1) >>),
    Stmt("c.setFillColor", 694, 688, 4, << c_setFillColor("black") >>),
    Stmt("c.setFont", 695, 688, 4, << c_setFont("Helvetica-Bold", 50) >>),
    Stmt("c.drawCentredString", 696, 688, 4, << c_drawCentredString((1785 * mm) \div 10, 65 * mm, <<"STS-4">>) >>),
    Stmt("c.setStrokeColor", 698, 688, 4, << c_setStrokeColor(HexColor.C_ELEC_A) >>),
    Stmt("c.setLineWidth", 699, 688, 4, << c_setLineWidth(5) >>),
    Stmt("c.line", 700, 688, 4, << c_line((1025 * mm) \div 10, 83 * mm, (1765 * mm) \div 10, 69 * mm) >>),
    Stmt("c.setStrokeColor", 701, 688, 4, << c_setStrokeColor(HexColor.C_ELEC_B) >>),
    Stmt("c.line", 702, 688, 4, << c_line((2125 * mm) \div 10, 83 * mm, (1805 * mm) \div 10, 69 * mm) >>),
    Stmt("c.setFont", 706, 0, 0, << c_setFont("Helvetica-Bold", 60) >>),
    Stmt("c.setFillColor", 707, 0, 0, << c_setFillColor("black") >>),
    Stmt("c.drawCentredString", 708, 0, 0, << c_drawCentredString((1485 * mm) \div 10, 55 * mm, <<"PDU DISTRIBUTION">>) >>),
    Stmt("c.setFillColor", 713, 711, 1, << c_setFillColor(HexColor.C_RACK_FILL) >>),
    Stmt("c.setStrokeColor", 714, 711, 1, << c_setStrokeColor(HexColor.C_RACK) >>),
    Stmt("c.setLineWidth", 715, 711, 1, << c_setLineWidth(6) >>),
    Stmt("c.rect", 716, 711, 1, << c_rect(73 * mm, 33 * mm, 7 * mm, 8 * mm, 1, 1) >>),
    Stmt("c.setFillColor", 717, 711, 1, << c_setFillColor("white") >>),
    Stmt("c.setFont", 718, 711, 1, << c_setFont("Helvetica-Bold", 40) >>),
    Stmt("c.drawCentredString", 721, 711, 1, << c_drawCentredString((765 * mm) \div 10, 36 * mm, <<"A01">>) >>),
    Stmt("c.setStrokeColor", 723, 711, 1, << c_setStrokeColor(HexColor.C_ELEC_A) >>),
    Stmt("c.setLineWidth", 724, 711, 1, << c_setLineWidth(3) >>),
    Stmt("c.line", 725, 711, 1, << c_line(75 * mm, 41 * mm, 75 * mm, 44 * mm) >>),
    Stmt("c.setStrokeColor", 726, 711, 1, << c_setStrokeColor(HexColor.C_ELEC_B) >>),
    Stmt("c.line", 727, 711, 1, << c_line(78 * mm, 41 * mm, 78 * mm, 44 * mm) >>),
    Stmt("c.setFillColor", 713, 711, 2, << c_setFillColor(HexColor.C_RACK_FILL) >>),
    Stmt("c.setStrokeColor", 714, 711, 2, << c_setStrokeColor(HexColor.C_RACK) >>),
    Stmt("c.setLineWidth", 715, 711, 2, << c_setLineWidth(6) >>),
    Stmt("c.rect", 716, 711, 2, << c_rect((825 * mm) \div 10, 33 * mm, 7 * mm, 8 * mm, 1, 1) >>),
    Stmt("c.setFillColor", 717, 711, 2, << c_setFillColor("white") >>),
    Stmt("c.setFont", 718, 711, 2, << c_setFont("Helvetica-Bold", 40) >>),
    Stmt("c.drawCentredString", 721, 711, 2, << c_drawCentredString(86 * mm, 36 * mm, <<"A02">>) >>),
    Stmt("c.setStrokeColor", 723, 711, 2, << c_setStrokeColor(HexColor.C_ELEC_A) >>),
    Stmt("c.setLineWidth", 724, 711, 2, << c_setLineWidth(3) >>),
    Stmt("c.line", 725, 711, 2, << c_line((845 * mm) \div 10, 41 * mm, (845 * mm) \div 10, 44 * mm) >>),
    Stmt("c.setStrokeColor", 726, 711, 2, << c_setStrokeColor(HexColor.C_ELEC_B) >>),
    Stmt("c.line", 727, 711, 2, << c_line((875 * mm) \div 10, 41 * mm, (875 * mm) \div 10, 44 * mm) >>),
    Stmt("c.setFillColor", 713, 711, 3, << c_setFillColor(HexColor.C_RACK_FILL) >>),
    Stmt("c.setStrokeColor", 714, 711, 3, << c_setStrokeColor(HexColor.C_RACK) >>),
    Stmt("c.setLineWidth", 715, 711, 3, << c_setLineWidth(6) >>),
    Stmt("c.rect", 716, 711, 3, << c_rect(92 * mm, 33 * mm, 7 * mm, 8 * mm, 1, 1) >>),
    Stmt("c.setFillColor", 717, 711, 3, << c_setFillColor("white") >>),
    Stmt("c.setFont", 718, 711, 3, << c_setFont("Helvetica-Bold", 40) >>),
    Stmt("c.drawCentredString", 721, 711, 3, << c_drawCentredString((955 * mm) \div 10, 36 * mm, <<"A03">>) >>),
    Stmt("c.setStrokeColor", 723, 711, 3, << c_setStrokeColor(HexColor.C_ELEC_A) >>),
    Stmt("c.setLineWidth", 724, 711, 3, << c_setLineWidth(3) >>),
    Stmt("c.line", 725, 711, 3, << c_line(94 * mm, 41 * mm, 94 * mm, 44 * mm) >>),
    Stmt("c.setStrokeColor", 726, 711, 3, << c_setStrokeColor(HexColor.C_ELEC_B) >>),
    Stmt("c.line", 727, 711, 3, << c_line(97 * mm, 41 * mm, 97 * mm, 44 * mm) >>),
    Stmt("c.setFillColor", 713, 711, 4, << c_setFillColor(HexColor.C_RACK_FILL) >>),
    Stmt("c.setStrokeColor", 714, 711, 4, << c_setStrokeColor(HexColor.C_RACK) >>),
    Stmt("c.setLineWidth", 715, 711, 4, << c_setLineWidth(6) >>),
    Stmt("c.rect", 716, 711, 4, << c_rect((1015 * mm) \div 10, 33 * mm, 7 * mm, 8 * mm, 1, 1) >>),
    Stmt("c.setFillColor", 717, 711, 4, << c_setFillColor("white") >>),
    Stmt("c.setFont", 718, 711, 4, << c_setFont("Helvetica-Bold", 40) >>),
    Stmt("c.drawCentredString", 721, 711, 4, << c_drawCentredString(105 * mm, 36 * mm, <<"A04">>) >>),
    Stmt("c.setStrokeColor", 723, 711, 4, << c_setStrokeColor(HexColor.C_ELEC_A) >>),
    Stmt("c.setLineWidth", 724, 711, 4, << c_setLineWidth(3) >>),
    Stmt("c.line", 725, 711, 4, << c_line((1035 * mm) \div 10, 41 * mm, (1035 * mm) \div 10, 44 * mm) >>),
    Stmt("c.setStrokeColor", 726, 711, 4, << c_setStrokeColor(HexColor.C_ELEC_B) >>),
    Stmt("c.line", 727, 711, 4, << c_line((1065 * mm) \div 10, 41 * mm, (1065 * mm) \div 10, 44 * mm) >>),
    Stmt("c.setFillColor", 713, 711, 5, << c_setFillColor(HexColor.C_RACK_FILL) >>),
    Stmt("c.setStrokeColor", 714, 711, 5, << c_setStrokeColor(HexColor.C_RACK) >>),
    Stmt("c.setLineWidth", 715, 711, 5, << c_setLineWidth(6) >>),
    Stmt("c.rect", 716, 711, 5, << c_rect(111 * mm, 33 * mm, 7 * mm, 8 * mm, 1, 1) >>),
    Stmt("c.setFillColor", 717, 711, 5, << c_setFillColor("white") >>),
    Stmt("c.setFont", 718, 711, 5, << c_setFont("Helvetica-Bold", 40) >>),
    Stmt("c.drawCentredString", 721, 711, 5, << c_drawCentredString((1145 * mm) \div 10, 36 * mm, <<"A05">>) >>),
    Stmt("c.setStrokeColor", 723, 711, 5, << c_setStrokeColor(HexColor.C_ELEC_A) >>),
    Stmt("c.setLineWidth", 724, 711, 5, << c_setLineWidth(3) >>),
    Stmt("c.line", 725, 711, 5, << c_line(113 * mm, 41 * mm, 113 * mm, 44 * mm) >>),
    Stmt("c.setStrokeColor", 726, 711, 5, << c_setStrokeColor(HexColor.C_ELEC_B) >>),
    Stmt("c.line", 727, 711, 5, << c_line(116 * mm, 41 * mm, 116 * mm, 44 * mm) >>),
    Stmt("c.setFillColor", 713, 711, 6, << c_setFillColor(HexColor.C_RACK_FILL) >>),
    Stmt("c.setStrokeColor", 714, 711, 6, << c_setStrokeColor(HexColor.C_RACK) >>),
    Stmt("c.setLineWidth", 715, 711, 6, << c_setLineWidth(6) >>),
    Stmt("c.rect", 716, 711, 6, << c_rect((1205 * mm) \div 10, 33 * mm, 7 * mm, 8 * mm, 1, 1) >>),
    Stmt("c.setFillColor", 717, 711, 6, << c_setFillColor("white") >>),
    Stmt("c.setFont", 718, 711, 6, << c_setFont("Helvetica-Bold", 40) >>),
    Stmt("c.drawCentredString", 721, 711, 6, << c_drawCentredString(124 * mm, 36 * mm, <<"A06">>) >>),
    Stmt("c.setStrokeColor", 723, 711, 6, << c_setStrokeColor(HexColor.C_ELEC_A) >>),
    Stmt("c.setLineWidth", 724, 711, 6, << c_setLineWidth(3) >>),
    Stmt("c.line", 725, 711, 6, << c_line((1225 * mm) \div 10, 41 * mm, (1225 * mm) \div 10, 44 * mm) >>),
    Stmt("c.setStrokeColor", 726, 711, 6, << c_setStrokeColor(HexColor.C_ELEC_B) >>),
    Stmt("c.line", 727, 711, 6, << c_line((1255 * mm) \div 10, 41 * mm, (1255 * mm) \div 10, 44 * mm) >>),
    Stmt("c.setFillColor", 713, 711, 7, << c_setFillColor(HexColor.C_RACK_FILL) >>),
    Stmt("c.setStrokeColor", 714, 711, 7, << c_setStrokeColor(HexColor.C_RACK) >>),
    Stmt("c.setLineWidth", 715, 711, 7, << c_setLineWidth(6) >>),
    Stmt("c.rect", 716, 711, 7, << c_rect(130 * mm, 33 * mm, 7 * mm, 8 * mm, 1, 1) >>),
    Stmt("c.setFillColor", 717, 711, 7, << c_setFillColor("white") >>),
    Stmt("c.setFont", 718, 711, 7, << c_setFont("Helvetica-Bold", 40) >>),
    Stmt("c.drawCentredString", 721, 711, 7, << c_drawCentredString((1335 * mm) \div 10, 36 * mm, <<"A07">>) >>),
    Stmt("c.setStrokeColor", 723, 711, 7, << c_setStrokeColor(HexColor.C_ELEC_A) >>),
    Stmt("c.setLineWidth", 724, 711, 7, << c_setLineWidth(3) >>),
    Stmt("c.line", 725, 711, 7, << c_line(132 * mm, 41 * mm, 132 * mm, 44 * mm) >>),
    Stmt("c.setStrokeColor", 726, 711, 7, << c_setStrokeColor(HexColor.C_ELEC_B) >>),
    Stmt("c.line", 727, 711, 7, << c_line(135 * mm, 41 * mm, 135 * mm, 44 * mm) >>),
    Stmt("c.setFillColor", 713, 711, 8, << c_setFillColor(HexColor.C_RACK_FILL) >>),
    Stmt("c.setStrokeColor", 714, 711, 8, << c_setStrokeColor(HexColor.C_RACK) >>),
    Stmt("c.setLineWidth", 715, 711, 8, << c_setLineWidth(6) >>),
    Stmt("c.rect", 716, 711, 8, << c_rect((1395 * mm) \div 10, 33 * mm, 7 * mm, 8 * mm, 1, 1) >>),
    Stmt("c.setFillColor", 717, 711, 8, << c_setFillColor("white") >>),
    Stmt("c.setFont", 718, 711, 8, << c_setFont("Helvetica-Bold", 40) >>),
    Stmt("c.drawCentredString", 721, 711, 8, << c_drawCentredString(143 * mm, 36 * mm, <<"A08">>) >>),
    Stmt("c.setStrokeColor", 723, 711, 8, << c_setStrokeColor(HexColor.C_ELEC_A) >>),
    Stmt("c.setLineWidth", 724, 711, 8, << c_setLineWidth(3) >>),
    Stmt("c.line", 725, 711, 8, << c_line((1415 * mm) \div 10, 41 * mm, (1415 * mm) \div 10, 44 * mm) >>),
    Stmt("c.setStrokeColor", 726, 711, 8, << c_setStrokeColor(HexColor.C_ELEC_B) >>),
    Stmt("c.line", 727, 711, 8, << c_line((1445 * mm) \div 10, 41 * mm, (1445 * mm) \div 10, 44 * mm) >>),
    Stmt("c.setFillColor", 713, 711, 9, << c_setFillColor(HexColor.C_RACK_FILL) >>),
    Stmt("c.setStrokeColor", 714, 711, 9, << c_setStrokeColor(HexColor.C_RACK) >>),
    Stmt("c.setLineWidth", 715, 711, 9, << c_setLineWidth(6) >>),
    Stmt("c.rect", 716, 711, 9, << c_rect(149 * mm, 33 * mm, 7 * mm, 8 * mm, 1, 1) >>),
    Stmt("c.setFillColor", 717, 711, 9, << c_setFillColor("white") >>),
    Stmt("c.setFont", 718, 711, 9, << c_setFont("Helvetica-Bold", 40) >>),
    Stmt("c.drawCentredString", 721, 711, 9, << c_drawCentredString((1525 * mm) \div 10, 36 * mm, <<"B01">>) >>),
    Stmt("c.setStrokeColor", 723, 711, 9, << c_setStrokeColor(HexColor.C_ELEC_A) >>),
    Stmt("c.setLineWidth", 724, 711, 9, << c_setLineWidth(3) >>),
    Stmt("c.line", 725, 711, 9, << c_line(151 * mm, 41 * mm, 151 * mm, 44 * mm) >>),
    Stmt("c.setStrokeColor", 726, 711, 9, << c_setStrokeColor(HexColor.C_ELEC_B) >>),
    Stmt("c.line", 727, 711, 9, << c_line(154 * mm, 41 * mm, 154 * mm, 44 * mm) >>),
    Stmt("c.setFillColor", 713, 711, 10, << c_setFillColor(HexColor.C_RACK_FILL) >>),
    Stmt("c.setStrokeColor", 714, 711, 10, << c_setStrokeColor(HexColor.C_RACK) >>),
    Stmt("c.setLineWidth", 715, 711, 10, << c_setLineWidth(6) >>),
    Stmt("c.rect", 716, 711, 10, << c_rect((1585 * mm) \div 10, 33 * mm, 7 * mm, 8 * mm, 1, 1) >>),
    Stmt("c.setFillColor", 717, 711, 10, << c_setFillColor("white") >>),
    Stmt("c.setFont", 718, 711, 10, << c_setFont("Helvetica-Bold", 40) >>),
    Stmt("c.drawCentredString", 721, 711, 10, << c_drawCentredString(162 * mm, 36 * mm, <<"B02">>) >>),
    Stmt("c.setStrokeColor", 723, 711, 10, << c_setStrokeColor(HexColor.C_ELEC_A) >>),
    Stmt("c.setLineWidth", 724, 711, 10, << c_setLineWidth(3) >>),
    Stmt("c.line", 725, 711, 10, << c_line((1605 * mm) \div 10, 41 * mm, (1605 * mm) \div 10, 44 * mm) >>),
    Stmt("c.setStrokeColor", 726, 711, 10, << c_setStrokeColor(HexColor.C_ELEC_B) >>),
    Stmt("c.line", 727, 711, 10, << c_line((1635 * mm) \div 10, 41 * mm, (1635 * mm) \div 10, 44 * mm) >>),
    Stmt("c.setFillColor", 713, 711, 11, << c_setFillColor(HexColor.C_RACK_FILL) >>),
    Stmt("c.setStrokeColor", 714, 711, 11, << c_setStrokeColor(HexColor.C_RACK) >>),
    Stmt("c.setLineWidth", 715, 711, 11, << c_setLineWidth(6) >>),
    Stmt("c.rect", 716, 711, 11, << c_rect(168 * mm, 33 * mm, 7 * mm, 8 * mm, 1, 1) >>),
    Stmt("c.setFillColor", 717, 711, 11, << c_setFillColor("white") >>),
    Stmt("c.setFont", 718, 711, 11, << c_setFont("Helvetica-Bold", 40) >>),
    Stmt("c.drawCentredString", 721, 711, 11, << c_drawCentredString((1715 * mm) \div 10, 36 * mm, <<"B03">>) >>),
    Stmt("c.setStrokeColor", 723, 711, 11, << c_setStrokeColor(HexColor.C_ELEC_A) >>),
    Stmt("c.setLineWidth", 724, 711, 11, << c_setLineWidth(3) >>),
    Stmt("c.line", 725, 711, 11, << c_line(170 * mm, 41 * mm, 170 * mm, 44 * mm) >>),
    Stmt("c.setStrokeColor", 726, 711, 11, << c_setStrokeColor(HexColor.C_ELEC_B) >>),
    Stmt("c.line", 727, 711, 11, << c_line(173 * mm, 41 * mm, 173 * mm, 44 * mm) >>),
    Stmt("c.setFillColor", 713, 711, 12, << c_setFillColor(HexColor.C_RACK_FILL) >>),
    Stmt("c.setStrokeColor", 714, 711, 12, << c_setStrokeColor(HexColor.C_RACK) >>),
    Stmt("c.setLineWidth", 715, 711, 12, << c_setLineWidth(6) >>),
    Stmt("c.rect", 716, 711, 12, << c_rect((1775 * mm) \div 10, 33 * mm, 7 * mm, 8 * mm, 1, 1) >>),
    Stmt("c.setFillColor", 717, 711, 12, << c_setFillColor("white") >>),
    Stmt("c.setFont", 718, 711, 12, << c_setFont("Helvetica-Bold", 40) >>),
    Stmt("c.drawCentredString", 721, 711, 12, << c_drawCentredString(181 * mm, 36 * mm, <<"B04">>) >>),
    Stmt("c.setStrokeColor", 723, 711, 12, << c_setStrokeColor(HexColor.C_ELEC_A) >>),
    Stmt("c.setLineWidth", 724, 711, 12, << c_setLineWidth(3) >>),
    Stmt("c.line", 725, 711, 12, << c_line((1795 * mm) \div 10, 41 * mm, (1795 * mm) \div 10, 44 * mm) >>),
    Stmt("c.setStrokeColor", 726, 711, 12, << c_setStrokeColor(HexColor.C_ELEC_B) >>),
    Stmt("c.line", 727, 711, 12, << c_line((1825 * mm) \div 10, 41 * mm, (1825 * mm) \div 10, 44 * mm) >>),
    Stmt("c.setFillColor", 713, 711, 13, << c_setFillColor(HexColor.C_RACK_FILL) >>),
    Stmt("c.setStrokeColor", 714, 711, 13, << c_setStrokeColor(HexColor.C_RACK) >>),
    Stmt("c.setLineWidth", 715, 711, 13, << c_setLineWidth(6) >>),
    Stmt("c.rect", 716, 711, 13, << c_rect(187 * mm, 33 * mm, 7 * mm, 8 * mm, 1, 1) >>),
    Stmt("c.setFillColor", 717, 711, 13, << c_setFillColor("white") >>),
    Stmt("c.setFont", 718, 711, 13, << c_setFont("Helvetica-Bold", 40) >>),
    Stmt("c.drawCentredString", 721, 711, 13, << c_drawCentredString((1905 * mm) \div 10, 36 * mm, <<"B05">>) >>),
    Stmt("c.setStrokeColor", 723, 711, 13, << c_setStrokeColor(HexColor.C_ELEC_A) >>),
    Stmt("c.setLineWidth", 724, 711, 13, << c_setLineWidth(3) >>),
    Stmt("c.line", 725, 711, 13, << c_line(189 * mm, 41 * mm, 189 * mm, 44 * mm) >>),
    Stmt("c.setStrokeColor", 726, 711, 13, << c_setStrokeColor(HexColor.C_ELEC_B) >>),
    Stmt("c.line", 727, 711, 13, << c_line(192 * mm, 41 * mm, 192 * mm, 44 * mm) >>),
    Stmt("c.setFillColor", 713, 711, 14, << c_setFillColor(HexColor.C_RACK_FILL) >>),
    Stmt("c.setStrokeColor", 714, 711, 14, << c_setStrokeColor(HexColor.C_RACK) >>),
    Stmt("c.setLineWidth", 715, 711, 14, << c_setLineWidth(6) >>),
    Stmt("c.rect", 716, 711, 14, << c_rect((1965 * mm) \div 10, 33 * mm, 7 * mm, 8 * mm, 1, 1) >>),
    Stmt("c.setFillColor", 717, 711, 14, << c_setFillColor("white") >>),
    Stmt("c.setFont", 718, 711, 14, << c_setFont("Helvetica-Bold", 40) >>),
    Stmt("c.drawCentredString", 721, 711, 14, << c_drawCentredString(200 * mm, 36 * mm, <<"B06">>) >>),
    Stmt("c.setStrokeColor", 723, 711, 14, << c_setStrokeColor(HexColor.C_ELEC_A) >>),
    Stmt("c.setLineWidth", 724, 711, 14, << c_setLineWidth(3) >>),
    Stmt("c.line", 725, 711, 14, << c_line((1985 * mm) \div 10, 41 * mm, (1985 * mm) \div 10, 44 * mm) >>),
    Stmt("c.setStrokeColor", 726, 711, 14, << c_setStrokeColor(HexColor.C_ELEC_B) >>),
    Stmt("c.line", 727, 711, 14, << c_line((2015 * mm) \div 10, 41 * mm, (2015 * mm) \div 10, 44 * mm) >>),
    Stmt("c.setFillColor", 713, 711, 15, << c_setFillColor(HexColor.C_RACK_FILL) >>),
    Stmt("c.setStrokeColor", 714, 711, 15, << c_setStrokeColor(HexColor.C_RACK) >>),
    Stmt("c.setLineWidth", 715, 711, 15, << c_setLineWidth(6) >>),
    Stmt("c.rect", 716, 711, 15, << c_rect(206 * mm, 33 * mm, 7 * mm, 8 * mm, 1, 1) >>),
    Stmt("c.setFillColor", 717, 711, 15, << c_setFillColor("white") >>),
    Stmt("c.setFont", 718, 711, 15, << c_setFont("Helvetica-Bold", 40) >>),
    Stmt("c.drawCentredString", 721, 711, 15, << c_drawCentredString((2095 * mm) \div 10, 36 * mm, <<"B07">>) >>),
    Stmt("c.setStrokeColor", 723, 711, 15, << c_setStrokeColor(HexColor.C_ELEC_A) >>),
    Stmt("c.setLineWidth", 724, 711, 15, << c_setLineWidth(3) >>),
    Stmt("c.line", 725, 711, 15, << c_line(208 * mm, 41 * mm, 208 * mm, 44 * mm) >>),
    Stmt("c.setStrokeColor", 726, 711, 15, << c_setStrokeColor(HexColor.C_ELEC_B) >>),
    Stmt("c.line", 727, 711, 15, << c_line(211 * mm, 41 * mm, 211 * mm, 44 * mm) >>),
    Stmt("c.setFillColor", 713, 711, 16, << c_setFillColor(HexColor.C_RACK_FILL) >>),
    Stmt("c.setStrokeColor", 714, 711, 16, << c_setStrokeColor(HexColor.C_RACK) >>),
    Stmt("c.setLineWidth", 715, 711, 16, << c_setLineWidth(6) >>),
    Stmt("c.rect", 716, 711, 16, << c_rect((2155 * mm) \div 10, 33 * mm, 7 * mm, 8 * mm, 1, 1) >>),
    Stmt("c.setFillColor", 717, 711, 16, << c_setFillColor("white") >>),
    Stmt("c.setFont", 718, 711, 16, << c_setFont("Helvetica-Bold", 40) >>),
    Stmt("c.drawCentredString", 721, 711, 16, << c_drawCentredString(219 * mm, 36 * mm, <<"B08">>) >>),
    Stmt("c.setStrokeColor", 723, 711, 16, << c_setStrokeColor(HexColor.C_ELEC_A) >>),
    Stmt("c.setLineWidth", 724, 711, 16, << c_setLineWidth(3) >>),
    Stmt("c.line", 725, 711, 16, << c_line((2175 * mm) \div 10, 41 * mm, (2175 * mm) \div 10, 44 * mm) >>),
    Stmt("c.setStrokeColor", 726, 711, 16, << c_setStrokeColor(HexColor.C_ELEC_B) >>),
    Stmt("c.line", 727, 711, 16, << c_line((2205 * mm) \div 10, 41 * mm, (2205 * mm) \div 10, 44 * mm) >>),
    Stmt("c.setFont", 729, 0, 0, << c_setFont("Helvetica", 50) >>),
    Stmt("c.setFillColor", 730, 0, 0, << c_setFillColor("black") >>),
    Stmt("c.drawCentredString", 731, 0, 0, << c_drawCentredString((1485 * mm) \div 10, 28 * mm, <<"16 x DUAL-CORDED IT RACKS (A+B FEED)">>) >>),
    Stmt("c.setStrokeColor", 736, 0, 0, << c_setStrokeColor("black") >>),
    Stmt("c.setFillColor", 737, 0, 0, << c_setFillColor("white") >>),
    Stmt("c.setLineWidth", 738, 0, 0, << c_setLineWidth(5) >>),
    Stmt("c.rect", 739, 0, 0, << c_rect(233 * mm, 54 * mm, 48 * mm, 32 * mm, 1, 1) >>),
    Stmt("c.setFillColor", 740, 0, 0, << c_setFillColor("black") >>),
    Stmt("c.setFont", 741, 0, 0, << c_setFont("Helvetica-Bold", 60) >>),
    Stmt("c.drawString", 742, 0, 0, << c_drawString(235 * mm, 81 * mm, <<"LEGEND">>) >>),
    Stmt("c.setLineWidth", 743, 0, 0, << c_setLineWidth(3) >>),
    Stmt("c.line", 744, 0, 0, << c_line(235 * mm, 80 * mm, 279 * mm, 80 * mm) >>),
    Stmt("draw_legend_item", 746, 0, 0, draw_legend_item(235 * mm, 75 * mm, HexColor.C_ELEC_A, <<"Path A (Primary)">>, "line")),
    Stmt("draw_legend_item", 747, 0, 0, draw_legend_item(235 * mm, 70 * mm, HexColor.C_ELEC_B, <<"Path B (Redundant)">>, "line")),
    Stmt("draw_legend_item", 748, 0, 0, draw_legend_item(235 * mm, 65 * mm, HexColor.C_GEN, <<"Generator (IEC 60617)">>, "circle")),
    Stmt("draw_legend_item", 749, 0, 0, draw_legend_item(235 * mm, 60 * mm, HexColor.C_LIGHT_PURPLE, <<"UPS Module">>, "rect")),
    Stmt("draw_legend_item", 750, 0, 0, draw_legend_item(235 * mm, 55 * mm, HexColor.C_DASHED, <<"N+1", " Spare (Standby)">>, "dash"))
  >>

(* draw_network: the calls of the body after the sheet frame, in order: the source *)
(* line of each call, the for statement it is in and its iteration.                 *)
draw_network_calls ==
  <<
    Stmt("c.setFillColor", 788, 0, 0, << c_setFillColor("#fef9e7") >>),
    Stmt("c.setStrokeColor", 789, 0, 0, << c_setStrokeColor(HexColor.C_GEN) >>),
    Stmt("c.setLineWidth", 790, 0, 0, << c_setLineWidth(5) >>),
    Stmt("c.setDash", 791, 0, 0, << c_setDash(3 * pt, 2 * pt) >>),
    Stmt("c.rect", 792, 0, 0, << c_rect(34 * mm, 170 * mm, 229 * mm, 18 * mm, 1, 1) >>),
    Stmt("c.setDash", 793, 0, 0, << c_setDashSolid >>),
    Stmt("c.setFillColor", 794, 0, 0, << c_setFillColor(HexColor.C_GEN) >>),
    Stmt("c.setFont", 795, 0, 0, << c_setFont("Helvetica-Bold", 50) >>),
    Stmt("c.drawString", 796, 0, 0, << c_drawString(36 * mm, 185 * mm, <<"ZONE: WAN / INTERNET">>) >>),
    Stmt("net_box", 801, 0, 0, net_box((1085 * mm) \div 10, 178 * mm, 30 * mm, 10 * mm, <<"ISP-A">>, <<"Primary / BGP">>, HexColor.C_NET_CORE, "black")),
    Stmt("net_box", 802, 0, 0, net_box((1885 * mm) \div 10, 178 * mm, 30 * mm, 10 * mm, <<"ISP-B">>, <<"Secondary / BGP">>, HexColor.C_NET_CORE, "black")),
    Stmt("c.setFillColor", 806, 0, 0, << c_setFillColor(HexColor.C_LIGHT_RED) >>),
    Stmt("c.setStrokeColor", 807, 0, 0, << c_setStrokeColor(HexColor.C_FIRE) >>),
    Stmt("c.setLineWidth", 808, 0, 0, << c_setLineWidth(5) >>),
    Stmt("c.setDash", 809, 0, 0, << c_setDash(3 * pt, 2 * pt) >>),
    Stmt("c.rect", 810, 0, 0, << c_rect(34 * mm, 134 * mm, 229 * mm, 24 * mm, 1, 1) >>),
    Stmt("c.setDash", 811, 0, 0, << c_setDashSolid >>),
    Stmt("c.setFillColor", 812, 0, 0, << c_setFillColor(HexColor.C_FIRE) >>),
    Stmt("c.setFont", 813, 0, 0, << c_setFont("Helvetica-Bold", 50) >>),
    Stmt("c.drawString", 814, 0, 0, << c_drawString(36 * mm, 155 * mm, <<"ZONE: DMZ / BORDER">>) >>),
    Stmt("net_box", 820, 0, 0, net_box((1085 * mm) \div 10, 151 * mm, 28 * mm, 9 * mm, <<"BR-A">>, <<"Border Router">>, HexColor.C_NET_CORE, "black")),
    Stmt("net_box", 821, 0, 0, net_box((1885 * mm) \div 10, 151 * mm, 28 * mm, 9 * mm, <<"BR-B">>, <<"Border Router">>, HexColor.C_NET_CORE, "black")),
    Stmt("net_line", 823, 0, 0, net_line((1085 * mm) \div 10, 173 * mm, (1085 * mm) \div 10, (1555 * mm) \div 10, HexColor.C_NET_CORE, 15, FALSE)),
    Stmt("net_line", 824, 0, 0, net_line((1885 * mm) \div 10, 173 * mm, (1885 * mm) \div 10, (1555 * mm) \div 10, HexColor.C_NET_CORE, 15, FALSE)),
    Stmt("net_box", 830, 0, 0, net_box((1085 * mm) \div 10, 141 * mm, 28 * mm, 9 * mm, <<"FW-A">>, <<"Active">>, HexColor.C_FIRE, HexColor.C_FIRE)),
    Stmt("net_box", 831, 0, 0, net_box((1885 * mm) \div 10, 141 * mm, 28 * mm, 9 * mm, <<"FW-B">>, <<"Standby">>, HexColor.C_FIRE, HexColor.C_FIRE)),
    Stmt("net_line", 833, 0, 0, net_line((1085 * mm) \div 10, (1465 * mm) \div 10, (1085 * mm) \div 10, (1455 * mm) \div 10, HexColor.C_NET_CORE, 10, FALSE)),
    Stmt("net_line", 834, 0, 0, net_line((1885 * mm) \div 10, (1465 * mm) \div 10, (1885 * mm) \div 10, (1455 * mm) \div 10, HexColor.C_NET_CORE, 10, FALSE)),
    Stmt("net_line", 836, 0, 0, net_line((1225 * mm) \div 10, 141 * mm, (1745 * mm) \div 10, 141 * mm, HexColor.C_FIRE, 5, TRUE)),
    Stmt("c.setFillColor", 837, 0, 0, << c_setFillColor(HexColor.C_FIRE) >>),
    Stmt("c.setFont", 838, 0, 0, << c_setFont("Helvetica", 40) >>),
    Stmt("c.drawCentredString", 839, 0, 0, << c_drawCentredString((1485 * mm) \div 10, 143 * mm, <<"HA HEARTBEAT">>) >>),
    Stmt("c.setFillColor", 843, 0, 0, << c_setFillColor(HexColor.C_LIGHT_GREEN) >>),
    Stmt("c.setStrokeColor", 844, 0, 0, << c_setStrokeColor(HexColor.C_MECH) >>),
    Stmt("c.setLineWidth", 845, 0, 0, << c_setLineWidth(5) >>),
    Stmt("c.setDash", 846, 0, 0, << c_setDash(3 * pt, 2 * pt) >>),
    Stmt("c.rect", 847, 0, 0, << c_rect(34 * mm, 104 * mm, 229 * mm, 20 * mm, 1, 1) >>),
    Stmt("c.setDash", 848, 0, 0, << c_setDashSolid >>),
    Stmt("c.setFillColor", 849, 0, 0, << c_setFillColor(HexColor.C_MECH) >>),
    Stmt("c.setFont", 850, 0, 0, << c_setFont("Helvetica-Bold", 50) >>),
    Stmt("c.drawString", 851, 0, 0, << c_drawString(36 * mm, 121 * mm, <<"ZONE: CORE NETWORK">>) >>),
    Stmt("net_box", 857, 0, 0, net_box((1085 * mm) \div 10, 114 * mm, 32 * mm, 10 * mm, <<"CORE-SW-A">>, <<"L3 / 40GbE">>, HexColor.C_MECH, "black")),
    Stmt("net_box", 858, 0, 0, net_box((1885 * mm) \div 10, 114 * mm, 32 * mm, 10 * mm, <<"CORE-SW-B">>, <<"L3 / 40GbE">>, HexColor.C_MECH, "black")),
    Stmt("net_line", 860, 0, 0, net_line((1085 * mm) \div 10, (1365 * mm) \div 10, (1085 * mm) \div 10, 119 * mm, HexColor.C_NET_CORE, 10, FALSE)),
    Stmt("net_line", 861, 0, 0, net_line((1885 * mm) \div 10, (1365 * mm) \div 10, (1885 * mm) \div 10, 119 * mm, HexColor.C_NET_CORE, 10, FALSE)),
    Stmt("net_line", 863, 0, 0, net_line((1245 * mm) \div 10, 114 * mm, (1725 * mm) \div 10, 114 * mm, HexColor.C_MECH, 15, FALSE)),
    Stmt("c.setFillColor", 864, 0, 0, << c_setFillColor(HexColor.C_MECH) >>),
    Stmt("c.setFont", 865, 0, 0, << c_setFont("Helvetica", 40) >>),
    Stmt("c.drawCentredString", 866, 0, 0, << c_drawCentredString((1485 * mm) \div 10, 116 * mm, <<"40GbE CROSS-CONNECT">>) >>),
    Stmt("c.setFillColor", 870, 0, 0, << c_setFillColor(HexColor.C_LIGHT_BLUE) >>),
    Stmt("c.setStrokeColor", 871, 0, 0, << c_setStrokeColor(HexColor.C_COOL_SUPPLY) >>),
    Stmt("c.setLineWidth", 872, 0, 0, << c_setLineWidth(5) >>),
    Stmt("c.setDash", 873, 0, 0, << c_setDash(3 * pt, 2 * pt) >>),
    Stmt("c.rect", 874, 0, 0, << c_rect(24 * mm, 64 * mm, 249 * mm, 32 * mm, 1, 1) >>),
    Stmt("c.setDash", 875, 0, 0, << c_setDashSolid >>),
    Stmt("c.setFillColor", 876, 0, 0, << c_setFillColor(HexColor.C_COOL_SUPPLY) >>),
    Stmt("c.setFont", 877, 0, 0, << c_setFont("Helvetica-Bold", 50) >>),
    Stmt("c.drawString", 878, 0, 0, << c_drawString(26 * mm, 93 * mm, <<"ZONE: ACCESS / TOP-OF-RACK">>) >>),
    Stmt("c.setFillColor", 884, 882, 1, << c_setFillColor(HexColor.C_NET_AGG) >>),
    Stmt("c.setStrokeColor", 885, 882, 1, << c_setStrokeColor("black") >>),
    Stmt("c.setLineWidth", 886, 882, 1, << c_setLineWidth(6) >>),
    Stmt("c.roundRect", 887, 882, 1, << c_roundRect(32 * mm, (825 * mm) \div 10, 24 * mm, 7 * mm, 1 * mm, 1, 1) >>),
    Stmt("c.setFillColor", 888, 882, 1, << c_setFillColor("white") >>),
    Stmt("c.setFont", 889, 882, 1, << c_setFont("Helvetica-Bold", 50) >>),
    Stmt("c.drawCentredString", 890, 882, 1, << c_drawCentredString(44 * mm, 86 * mm, <<"ToR-1">>) >>),
    Stmt("net_line", 892, 882, 1, net_line(41 * mm, (895 * mm) \div 10, (1085 * mm) \div 10, 109 * mm, HexColor.C_NET_AGG, 4, FALSE)),
    Stmt("net_line", 893, 882, 1, net_line(47 * mm, (895 * mm) \div 10, (1885 * mm) \div 10, 109 * mm, HexColor.C_NET_AGG, 4, FALSE)),
    Stmt("c.setFillColor", 884, 882, 2, << c_setFillColor(HexColor.C_NET_AGG) >>),
    Stmt("c.setStrokeColor", 885, 882, 2, << c_setStrokeColor("black") >>),
    Stmt("c.setLineWidth", 886, 882, 2, << c_setLineWidth(6) >>),
    Stmt("c.roundRect", 887, 882, 2, << c_roundRect(62 * mm, (825 * mm) \div 10, 24 * mm, 7 * mm, 1 * mm, 1, 1) >>),
    Stmt("c.setFillColor", 888, 882, 2, << c_setFillColor("white") >>),
    Stmt("c.setFont", 889, 882, 2, << c_setFont("Helvetica-Bold", 50) >>),
    Stmt("c.drawCentredString", 890, 882, 2, << c_drawCentredString(74 * mm, 86 * mm, <<"ToR-2">>) >>),
    Stmt("net_line", 892, 882, 2, net_line(71 * mm, (895 * mm) \div 10, (1085 * mm) \div 10, 109 * mm, HexColor.C_NET_AGG, 4, FALSE)),
    Stmt("net_line", 893, 882, 2, net_line(77 * mm, (895 * mm) \div 10, (1885 * mm) \div 10, 109 * mm, HexColor.C_NET_AGG, 4, FALSE)),
    Stmt("c.setFillColor", 884, 882, 3, << c_setFillColor(HexColor.C_NET_AGG) >>),
    Stmt("c.setStrokeColor", 885, 882, 3, << c_setStrokeColor("black") >>),
    Stmt("c.setLineWidth", 886, 882, 3, << c_setLineWidth(6) >>),
    Stmt("c.roundRect", 887, 882, 3, << c_roundRect(92 * mm, (825 * mm) \div 10, 24 * mm, 7 * mm, 1 * mm, 1, 1) >>),
    Stmt("c.setFillColor", 888, 882, 3, << c_setFillColor("white") >>),
    Stmt("c.setFont", 889, 882, 3, << c_setFont("Helvetica-Bold", 50) >>),
    Stmt("c.drawCentredString", 890, 882, 3, << c_drawCentredString(104 * mm, 86 * mm, <<"ToR-3">>) >>),
    Stmt("net_line", 892, 882, 3, net_line(101 * mm, (895 * mm) \div 10, (1085 * mm) \div 10, 109 * mm, HexColor.C_NET_AGG, 4, FALSE)),
    Stmt("net_line", 893, 882, 3, net_line(107 * mm, (895 * mm) \div 10, (1885 * mm) \div 10, 109 * mm, HexColor.C_NET_AGG, 4, FALSE)),
    Stmt("c.setFillColor", 884, 882, 4, << c_setFillColor(HexColor.C_NET_AGG) >>),
    Stmt("c.setStrokeColor", 885, 882, 4, << c_setStrokeColor("black") >>),
    Stmt("c.setLineWidth", 886, 882, 4, << c_setLineWidth(6) >>),
    Stmt("c.roundRect", 887, 882, 4, << c_roundRect(122 * mm, (825 * mm) \div 10, 24 * mm, 7 * mm, 1 * mm, 1, 1) >>),
    Stmt("c.setFillColor", 888, 882, 4, << c_setFillColor("white") >>),
    Stmt("c.setFont", 889, 882, 4, << c_setFont("Helvetica-Bold", 50) >>),
    Stmt("c.drawCentredString", 890, 882, 4, << c_drawCentredString(134 * mm, 86 * mm, <<"ToR-4">>) >>),
    Stmt("net_line", 892, 882, 4, net_line(131 * mm, (895 * mm) \div 10, (1085 * mm) \div 10, 109 * mm, HexColor.C_NET_AGG, 4, FALSE)),
    Stmt("net_line", 893, 882, 4, net_line(137 * mm, (895 * mm) \div 10, (1885 * mm) \div 10, 109 * mm, HexColor.C_NET_AGG, 4, FALSE)),
    Stmt("c.setFillColor", 884, 882, 5, << c_setFillColor(HexColor.C_NET_AGG) >>),
    Stmt("c.setStrokeColor", 885, 882, 5, << c_setStrokeColor("black") >>),
    Stmt("c.setLineWidth", 886, 882, 5, << c_setLineWidth(6) >>),
    Stmt("c.roundRect", 887, 882, 5, << c_roundRect(152 * mm, (825 * mm) \div 10, 24 * mm, 7 * mm, 1 * mm, 1, 1) >>),
    Stmt("c.setFillColor", 888, 882, 5, << c_setFillColor("white") >>),
    Stmt("c.setFont", 889, 882, 5, << c_setFont("Helvetica-Bold", 50) >>),
    Stmt("c.drawCentredString", 890, 882, 5, << c_drawCentredString(164 * mm, 86 * mm, <<"ToR-5">>) >>),
    Stmt("net_line", 892, 882, 5, net_line(161 * mm, (895 * mm) \div 10, (1085 * mm) \div 10, 109 * mm, HexColor.C_NET_AGG, 4, FALSE)),
    Stmt("net_line", 893, 882, 5, net_line(167 * mm, (895 * mm) \div 10, (1885 * mm) \div 10, 109 * mm, HexColor.C_NET_AGG, 4, FALSE)),
    Stmt("c.setFillColor", 884, 882, 6, << c_setFillColor(HexColor.C_NET_AGG) >>),
    Stmt("c.setStrokeColor", 885, 882, 6, << c_setStrokeColor("black") >>),
    Stmt("c.setLineWidth", 886, 882, 6, << c_setLineWidth(6) >>),
    Stmt("c.roundRect", 887, 882, 6, << c_roundRect(182 * mm, (825 * mm) \div 10, 24 * mm, 7 * mm, 1 * mm, 1, 1) >>),
    Stmt("c.setFillColor", 888, 882, 6, << c_setFillColor("white") >>),
    Stmt("c.setFont", 889, 882, 6, << c_setFont("Helvetica-Bold", 50) >>),
    Stmt("c.drawCentredString", 890, 882, 6, << c_drawCentredString(194 * mm, 86 * mm, <<"ToR-6">>) >>),
    Stmt("net_line", 892, 882, 6, net_line(191 * mm, (895 * mm) \div 10, (1085 * mm) \div 10, 109 * mm, HexColor.C_NET_AGG, 4, FALSE)),
    Stmt("net_line", 893, 882, 6, net_line(197 * mm, (895 * mm) \div 10, (1885 * mm) \div 10, 109 * mm, HexColor.C_NET_AGG, 4, FALSE)),
    Stmt("c.setFillColor", 884, 882, 7, << c_setFillColor(HexColor.C_NET_AGG) >>),
    Stmt("c.setStrokeColor", 885, 882, 7, << c_setStrokeColor("black") >>),
    Stmt("c.setLineWidth", 886, 882, 7, << c_setLineWidth(6) >>),
    Stmt("c.roundRect", 887, 882, 7, << c_roundRect(212 * mm, (825 * mm) \div 10, 24 * mm, 7 * mm, 1 * mm, 1, 1) >>),
    Stmt("c.setFillColor", 888, 882, 7, << c_setFillColor("white") >>),
    Stmt("c.setFont", 889, 882, 7, << c_setFont("Helvetica-Bold", 50) >>),
    Stmt("c.drawCentredString", 890, 882, 7, << c_drawCentredString(224 * mm, 86 * mm, <<"ToR-7">>) >>),
    Stmt("net_line", 892, 882, 7, net_line(221 * mm, (895 * mm) \div 10, (1085 * mm) \div 10, 109 * mm, HexColor.C_NET_AGG, 4, FALSE)),
    Stmt("net_line", 893, 882, 7, net_line(227 * mm, (895 * mm) \div 10, (1885 * mm) \div 10, 109 * mm, HexColor.C_NET_AGG, 4, FALSE)),
    Stmt("c.setFillColor", 884, 882, 8, << c_setFillColor(HexColor.C_NET_AGG) >>),
    Stmt("c.setStrokeColor", 885, 882, 8, << c_setStrokeColor("black") >>),
    Stmt("c.setLineWidth", 886, 882, 8, << c_setLineWidth(6) >>),
    Stmt("c.roundRect", 887, 882, 8, << c_roundRect(242 * mm, (825 * mm) \div 10, 24 * mm, 7 * mm, 1 * mm, 1, 1) >>),
    Stmt("c.setFillColor", 888, 882, 8, << c_setFillColor("white") >>),
    Stmt("c.setFont", 889, 882, 8, << c_setFont("Helvetica-Bold", 50) >>),
    Stmt("c.drawCentredString", 890, 882, 8, << c_drawCentredString(254 * mm, 86 * mm, <<"ToR-8">>) >>),
    Stmt("net_line", 892, 882, 8, net_line(251 * mm, (895 * mm) \div 10, (1085 * mm) \div 10, 109 * mm, HexColor.C_NET_AGG, 4, FALSE)),
    Stmt("net_line", 893, 882, 8, net_line(257 * mm, (895 * mm) \div 10, (1885 * mm) \div 10, 109 * mm, HexColor.C_NET_AGG, 4, FALSE)),
    Stmt("c.setFillColor", 899, 897, 1, << c_setFillColor(HexColor.C_RACK_FILL) >>),
    Stmt("c.setStrokeColor", 900, 897, 1, << c_setStrokeColor(HexColor.C_RACK) >>),
    Stmt("c.setLineWidth", 901, 897, 1, << c_setLineWidth(5) >>),
    Stmt("c.rect", 902, 897, 1, << c_rect(31 * mm, 70 * mm, 10 * mm, 7 * mm, 1, 1) >>),
    Stmt("c.setFillColor", 903, 897, 1, << c_setFillColor("white") >>),
    Stmt("c.setFont", 904, 897, 1, << c_setFont("Helvetica-Bold", 40) >>),
    Stmt("c.drawCentredString", 907, 897, 1, << c_drawCentredString(36 * mm, (725 * mm) \div 10, <<"A01">>) >>),
    Stmt("net_line", 911, 897, 1, net_line(36 * mm, 77 * mm, 44 * mm, (825 * mm) \div 10, HexColor.C_NET_ACC, 3, FALSE)),
    Stmt("c.setFillColor", 899, 897, 2, << c_setFillColor(HexColor.C_RACK_FILL) >>),
    Stmt("c.setStrokeColor", 900, 897, 2, << c_setStrokeColor(HexColor.C_RACK) >>),
    Stmt("c.setLineWidth", 901, 897, 2, << c_setLineWidth(5) >>),
    Stmt("c.rect", 902, 897, 2, << c_rect((465 * mm) \div 10, 70 * mm, 10 * mm, 7 * mm, 1, 1) >>),
    Stmt("c.setFillColor", 903, 897, 2, << c_setFillColor("white") >>),
    Stmt("c.setFont", 904, 897, 2, << c_setFont("Helvetica-Bold", 40) >>),
    Stmt("c.drawCentredString", 907, 897, 2, << c_drawCentredString((515 * mm) \div 10, (725 * mm) \div 10, <<"A02">>) >>),
    Stmt("net_line", 911, 897, 2, net_line((515 * mm) \div 10, 77 * mm, 44 * mm, (825 * mm) \div 10, HexColor.C_NET_ACC, 3, FALSE)),
    Stmt("c.setFillColor", 899, 897, 3, << c_setFillColor(HexColor.C_RACK_FILL) >>),
    Stmt("c.setStrokeColor", 900, 897, 3, << c_setStrokeColor(HexColor.C_RACK) >>),
    Stmt("c.setLineWidth", 901, 897, 3, << c_setLineWidth(5) >>),
    Stmt("c.rect", 902, 897, 3, << c_rect(62 * mm, 70 * mm, 10 * mm, 7 * mm, 1, 1) >>),
    Stmt("c.setFillColor", 903, 897, 3, << c_setFillColor("white") >>),
    Stmt("c.setFont", 904, 897, 3, << c_setFont("Helvetica-Bold", 40) >>),
    Stmt("c.drawCentredString", 907, 897, 3, << c_drawCentredString(67 * mm, (725 * mm) \div 10, <<"A03">>) >>),
    Stmt("net_line", 911, 897, 3, net_line(67 * mm, 77 * mm, 74 * mm, (825 * mm) \div 10, HexColor.C_NET_ACC, 3, FALSE)),
    Stmt("c.setFillColor", 899, 897, 4, << c_setFillColor(HexColor.C_RACK_FILL) >>),
    Stmt("c.setStrokeColor", 900, 897, 4, << c_setStrokeColor(HexColor.C_RACK) >>),
    Stmt("c.setLineWidth", 901, 897, 4, << c_setLineWidth(5) >>),
    Stmt("c.rect", 902, 897, 4, << c_rect((775 * mm) \div 10, 70 * mm, 10 * mm, 7 * mm, 1, 1) >>),
    Stmt("c.setFillColor", 903, 897, 4, << c_setFillColor("white") >>),
    Stmt("c.setFont", 904, 897, 4, << c_setFont("Helvetica-Bold", 40) >>),
    Stmt("c.drawCentredString", 907, 897, 4, << c_drawCentredString((825 * mm) \div 10, (725 * mm) \div 10, <<"A04">>) >>),
    Stmt("net_line", 911, 897, 4, net_line((825 * mm) \div 10, 77 * mm, 74 * mm, (825 * mm) \div 10, HexColor.C_NET_ACC, 3, FALSE)),
    Stmt("c.setFillColor", 899, 897, 5, << c_setFillColor(HexColor.C_RACK_FILL) >>),
    Stmt("c.setStrokeColor", 900, 897, 5, << c_setStrokeColor(HexColor.C_RACK) >>),
    Stmt("c.setLineWidth", 901, 897, 5, << c_setLineWidth(5) >>),
    Stmt("c.rect", 902, 897, 5, << c_rect(93 * mm, 70 * mm, 10 * mm, 7 * mm, 1, 1) >>),
    Stmt("c.setFillColor", 903, 897, 5, << c_setFillColor("white") >>),
    Stmt("c.setFont", 904, 897, 5, << c_setFont("Helvetica-Bold", 40) >>),
    Stmt("c.drawCentredString", 907, 897, 5, << c_drawCentredString(98 * mm, (725 * mm) \div 10, <<"A05">>) >>),
    Stmt("net_line", 911, 897, 5, net_line(98 * mm, 77 * mm, 104 * mm, (825 * mm) \div 10, HexColor.C_NET_ACC, 3, FALSE)),
    Stmt("c.setFillColor", 899, 897, 6, << c_setFillColor(HexColor.C_RACK_FILL) >>),
    Stmt("c.setStrokeColor", 900, 897, 6, << c_setStrokeColor(HexColor.C_RACK) >>),
    Stmt("c.setLineWidth", 901, 897, 6, << c_setLineWidth(5) >>),
    Stmt("c.rect", 902, 897, 6, << c_rect((1085 * mm) \div 10, 70 * mm, 10 * mm, 7 * mm, 1, 1) >>),
    Stmt("c.setFillColor", 903, 897, 6, << c_setFillColor("white") >>),
    Stmt("c.setFont", 904, 897, 6, << c_setFont("Helvetica-Bold", 40) >>),
    Stmt("c.drawCentredString", 907, 897, 6, << c_drawCentredString((1135 * mm) \div 10, (725 * mm) \div 10, <<"A06">>) >>),
    Stmt("net_line", 911, 897, 6, net_line((1135 * mm) \div 10, 77 * mm, 104 * mm, (825 * mm) \div 10, HexColor.C_NET_ACC, 3, FALSE)),
    Stmt("c.setFillColor", 899, 897, 7, << c_setFillColor(HexColor.C_RACK_FILL) >>),
    Stmt("c.setStrokeColor", 900, 897, 7, << c_setStrokeColor(HexColor.C_RACK) >>),
    Stmt("c.setLineWidth", 901, 897, 7, << c_setLineWidth(5) >>),
    Stmt("c.rect", 902, 897, 7, << c_rect(124 * mm, 70 * mm, 10 * mm, 7 * mm, 1, 1) >>),
    Stmt("c.setFillColor", 903, 897, 7, << c_setFillColor("white") >>),
    Stmt("c.setFont", 904, 897, 7, << c_setFont("Helvetica-Bold", 40) >>),
    Stmt("c.drawCentredString", 907, 897, 7, << c_drawCentredString(129 * mm, (725 * mm) \div 10, <<"A07">>) >>),
    Stmt("net_line", 911, 897, 7, net_line(129 * mm, 77 * mm, 134 * mm, (825 * mm) \div 10, HexColor.C_NET_ACC, 3, FALSE)),
    Stmt("c.setFillColor", 899, 897, 8, << c_setFillColor(HexColor.C_RACK_FILL) >>),
    Stmt("c.setStrokeColor", 900, 897, 8, << c_setStrokeColor(HexColor.C_RACK) >>),
    Stmt("c.setLineWidth", 901, 897, 8, << c_setLineWidth(5) >>),
    Stmt("c.rect", 902, 897, 8, << c_rect((1395 * mm) \div 10, 70 * mm, 10 * mm, 7 * mm, 1, 1) >>),
    Stmt("c.setFillColor", 903, 897, 8, << c_setFillColor("white") >>),
    Stmt("c.setFont", 904, 897, 8, << c_setFont("Helvetica-Bold", 40) >>),
    Stmt("c.drawCentredString", 907, 897, 8, << c_drawCentredString((1445 * mm) \div 10, (725 * mm) \div 10, <<"A08">>) >>),
    Stmt("net_line", 911, 897, 8, net_line((1445 * mm) \div 10, 77 * mm, 134 * mm, (825 * mm) \div 10, HexColor.C_NET_ACC, 3, FALSE)),
    Stmt("c.setFillColor", 899, 897, 9, << c_setFillColor(HexColor.C_RACK_FILL) >>),
    Stmt("c.setStrokeColor", 900, 897, 9, << c_setStrokeColor(HexColor.C_RACK) >>),
    Stmt("c.setLineWidth", 901, 897, 9, << c_setLineWidth(5) >>),
    Stmt("c.rect", 902, 897, 9, << c_rect(155 * mm, 70 * mm, 10 * mm, 7 * mm, 1, 1) >>),
    Stmt("c.setFillColor", 903, 897, 9, << c_setFillColor("white") >>),
    Stmt("c.setFont", 904, 897, 9, << c_setFont("Helvetica-Bold", 40) >>),
    Stmt("c.drawCentredString", 907, 897, 9, << c_drawCentredString(160 * mm, (725 * mm) \div 10, <<"B01">>) >>),
    Stmt("net_line", 911, 897, 9, net_line(160 * mm, 77 * mm, 164 * mm, (825 * mm) \div 10, HexColor.C_NET_ACC, 3, FALSE)),
    Stmt("c.setFillColor", 899, 897, 10, << c_setFillColor(HexColor.C_RACK_FILL) >>),
    Stmt("c.setStrokeColor", 900, 897, 10, << c_setStrokeColor(HexColor.C_RACK) >>),
    Stmt("c.setLineWidth", 901, 897, 10, << c_setLineWidth(5) >>),
    Stmt("c.rect", 902, 897, 10, << c_rect((1705 * mm) \div 10, 70 * mm, 10 * mm, 7 * mm, 1, 1) >>),
    Stmt("c.setFillColor", 903, 897, 10, << c_setFillColor("white") >>),
    Stmt("c.setFont", 904, 897, 10, << c_setFont("Helvetica-Bold", 40) >>),
    Stmt("c.drawCentredString", 907, 897, 10, << c_drawCentredString((1755 * mm) \div 10, (725 * mm) \div 10, <<"B02">>) >>),
    Stmt("net_line", 911, 897, 10, net_line((1755 * mm) \div 10, 77 * mm, 164 * mm, (825 * mm) \div 10, HexColor.C_NET_ACC, 3, FALSE)),
    Stmt("c.setFillColor", 899, 897, 11, << c_setFillColor(HexColor.C_RACK_FILL) >>),
    Stmt("c.setStrokeColor", 900, 897, 11, << c_setStrokeColor(HexColor.C_RACK) >>),
    Stmt("c.setLineWidth", 901, 897, 11, << c_setLineWidth(5) >>),
    Stmt("c.rect", 902, 897, 11, << c_rect(186 * mm, 70 * mm, 10 * mm, 7 * mm, 1, 1) >>),
    Stmt("c.setFillColor", 903, 897, 11, << c_setFillColor("white") >>),
    Stmt("c.setFont", 904, 897, 11, << c_setFont("Helvetica-Bold", 40) >>),
    Stmt("c.drawCentredString", 907, 897, 11, << c_drawCentredString(191 * mm, (725 * mm) \div 10, <<"B03">>) >>),
    Stmt("net_line", 911, 897, 11, net_line(191 * mm, 77 * mm, 194 * mm, (825 * mm) \div 10, HexColor.C_NET_ACC, 3, FALSE)),
    Stmt("c.setFillColor", 899, 897, 12, << c_setFillColor(HexColor.C_RACK_FILL) >>),
    Stmt("c.setStrokeColor", 900, 897, 12, << c_setStrokeColor(HexColor.C_RACK) >>),
    Stmt("c.setLineWidth", 901, 897, 12, << c_setLineWidth(5) >>),
    Stmt("c.rect", 902, 897, 12, << c_rect((2015 * mm) \div 10, 70 * mm, 10 * mm, 7 * mm, 1, 1) >>),
    Stmt("c.setFillColor", 903, 897, 12, << c_setFillColor("white") >>),
    Stmt("c.setFont", 904, 897, 12, << c_setFont("Helvetica-Bold", 40) >>),
    Stmt("c.drawCentredString", 907, 897, 12, << c_drawCentredString((2065 * mm) \div 10, (725 * mm) \div 10, <<"B04">>) >>),
    Stmt("net_line", 911, 897, 12, net_line((2065 * mm) \div 10, 77 * mm, 194 * mm, (825 * mm) \div 10, HexColor.C_NET_ACC, 3, FALSE)),
    Stmt("c.setFillColor", 899, 897, 13, << c_setFillColor(HexColor.C_RACK_FILL) >>),
    Stmt("c.setStrokeColor", 900, 897, 13, << c_setStrokeColor(HexColor.C_RACK) >>),
    Stmt("c.setLineWidth", 901, 897, 13, << c_setLineWidth(5) >>),
    Stmt("c.rect", 902, 897, 13, << c_rect(217 * mm, 70 * mm, 10 * mm, 7 * mm, 1, 1) >>),
    Stmt("c.setFillColor", 903, 897, 13, << c_setFillColor("white") >>),
    Stmt("c.setFont", 904, 897, 13, << c_setFont("Helvetica-Bold", 40) >>),
    Stmt("c.drawCentredString", 907, 897, 13, << c_drawCentredString(222 * mm, (725 * mm) \div 10, <<"B05">>) >>),
    Stmt("net_line", 911, 897, 13, net_line(222 * mm, 77 * mm, 224 * mm, (825 * mm) \div 10, HexColor.C_NET_ACC, 3, FALSE)),
    Stmt("c.setFillColor", 899, 897, 14, << c_setFillColor(HexColor.C_RACK_FILL) >>),
    Stmt("c.setStrokeColor", 900, 897, 14, << c_setStrokeColor(HexColor.C_RACK) >>),
    Stmt("c.setLineWidth", 901, 897, 14, << c_setLineWidth(5) >>),
    Stmt("c.rect", 902, 897, 14, << c_rect((2325 * mm) \div 10, 70 * mm, 10 * mm, 7 * mm, 1, 1) >>),
    Stmt("c.setFillColor", 903, 897, 14, << c_setFillColor("white") >>),
    Stmt("c.setFont", 904, 897, 14, << c_setFont("Helvetica-Bold", 40) >>),
    Stmt("c.drawCentredString", 907, 897, 14, << c_drawCentredString((2375 * mm) \div 10, (725 * mm) \div 10, <<"B06">>) >>),
    Stmt("net_line", 911, 897, 14, net_line((2375 * mm) \div 10, 77 * mm, 224 * mm, (825 * mm) \div 10, HexColor.C_NET_ACC, 3, FALSE)),
    Stmt("c.setFillColor", 899, 897, 15, << c_setFillColor(HexColor.C_RACK_FILL) >>),
    Stmt("c.setStrokeColor", 900, 897, 15, << c_setStrokeColor(HexColor.C_RACK) >>),
    Stmt("c.setLineWidth", 901, 897, 15, << c_setLineWidth(5) >>),
    Stmt("c.rect", 902, 897, 15, << c_rect(248 * mm, 70 * mm, 10 * mm, 7 * mm, 1, 1) >>),
    Stmt("c.setFillColor", 903, 897, 15, << c_setFillColor("white") >>),
    Stmt("c.setFont", 904, 897, 15, << c_setFont("Helvetica-Bold", 40) >>),
    Stmt("c.drawCentredString", 907, 897, 15, << c_drawCentredString(253 * mm, (725 * mm) \div 10, <<"B07">>) >>),
    Stmt("net_line", 911, 897, 15, net_line(253 * mm, 77 * mm, 254 * mm, (825 * mm) \div 10, HexColor.C_NET_ACC, 3, FALSE)),
    Stmt("c.setFillColor", 899, 897, 16, << c_setFillColor(HexColor.C_RACK_FILL) >>),
    Stmt("c.setStrokeColor", 900, 897, 16, << c_setStrokeColor(HexColor.C_RACK) >>),
    Stmt("c.setLineWidth", 901, 897, 16, << c_setLineWidth(5) >>),
    Stmt("c.rect", 902, 897, 16, << c_rect((2635 * mm) \div 10, 70 * mm, 10 * mm, 7 * mm, 1, 1) >>),
    Stmt("c.setFillColor", 903, 897, 16, << c_setFillColor("white") >>),
    Stmt("c.setFont", 904, 897, 16, << c_setFont("Helvetica-Bold", 40) >>),
    Stmt("c.drawCentredString", 907, 897, 16, << c_drawCentredString((2685 * mm) \div 10, (725 * mm) \div 10, <<"B08">>) >>),
    Stmt("net_line", 911, 897, 16, net_line((2685 * mm) \div 10, 77 * mm, 254 * mm, (825 * mm) \div 10, HexColor.C_NET_ACC, 3, FALSE)),
    Stmt("c.setFillColor", 916, 0, 0, << c_setFillColor("#d5dbdb") >>),
    Stmt("c.setStrokeColor", 917, 0, 0, << c_setStrokeColor("black") >>),
    Stmt("c.setLineWidth", 918, 0, 0, << c_setLineWidth(8) >>),
    Stmt("c.setDash", 919, 0, 0, << c_setDash(3 * pt, 2 * pt) >>),
    Stmt("c.roundRect", 920, 0, 0, << c_roundRect(228 * mm, 102 * mm, 30 * mm, 24 * mm, 2 * mm, 1, 1) >>),
    Stmt("c.setDash", 921, 0, 0, << c_setDashSolid >>),
    Stmt("c.setFillColor", 922, 0, 0, << c_setFillColor("black") >>),
    Stmt("c.setFont", 923, 0, 0, << c_setFont("Helvetica-Bold", 50) >>),
    Stmt("c.drawCentredString", 924, 0, 0, << c_drawCentredString(243 * mm, 120 * mm, <<"OOB MGMT">>) >>),
    Stmt("c.setFont", 925, 0, 0, << c_setFont("Helvetica", 40) >>),
    Stmt("c.drawCentredString", 926, 0, 0, << c_drawCentredString(243 * mm, 115 * mm, <<"IPMI / iLO / iDRAC">>) >>),
    Stmt("c.drawCentredString", 927, 0, 0, << c_drawCentredString(243 * mm, 110 * mm, <<"Console Servers">>) >>),
    Stmt("c.drawCentredString", 928, 0, 0, << c_drawCentredString(243 * mm, 105 * mm, <<"Separate VLAN">>) >>),
    Stmt("c.setStrokeColor", 933, 0, 0, << c_setStrokeColor("black") >>),
    Stmt("c.setFillColor", 934, 0, 0, << c_setFillColor("white") >>),
    Stmt("c.setLineWidth", 935, 0, 0, << c_setLineWidth(5) >>),
    Stmt("c.rect", 936, 0, 0, << c_rect(18 * mm, 54 * mm, 55 * mm, 30 * mm, 1, 1) >>),
    Stmt("c.setFillColor", 937, 0, 0, << c_setFillColor("black") >>),
    Stmt("c.setFont", 938, 0, 0, << c_setFont("Helvetica-Bold", 60) >>),
    Stmt("c.drawString", 939, 0, 0, << c_drawString(20 * mm, 79 * mm, <<"LEGEND">>) >>),
    Stmt("c.setLineWidth", 940, 0, 0, << c_setLineWidth(3) >>),
    Stmt("c.line", 941, 0, 0, << c_line(20 * mm, 78 * mm, 71 * mm, 78 * mm) >>),
    Stmt("draw_legend_item", 943, 0, 0, draw_legend_item(20 * mm, 73 * mm, HexColor.C_NET_CORE, <<"WAN / Border (L3)">>, "rect")),
    Stmt("draw_legend_item", 944, 0, 0, draw_legend_item(20 * mm, 68 * mm, HexColor.C_FIRE, <<"Firewall (HA Pair)">>, "rect")),
    Stmt("draw_legend_item", 945, 0, 0, draw_legend_item(20 * mm, 63 * mm, HexColor.C_MECH, <<"Core Switch (L3 / 40GbE)">>, "rect")),
    Stmt("draw_legend_item", 946, 0, 0, draw_legend_item(20 * mm, 58 * mm, HexColor.C_NET_AGG, <<"ToR Switch (L2 / 10GbE)">>, "rect")),
    Stmt("draw_legend_item", 947, 0, 0, draw_legend_item(20 * mm, 53 * mm, HexColor.C_RACK_FILL, <<"Server Rack (Dual-homed)">>, "rect"))
  >>

(* draw_cooling: the calls of the body after the sheet frame, in order: the source *)
(* line of each call, the for statement it is in and its iteration.                 *)
draw_cooling_calls ==
  <<
    Stmt("c.setFillColor", 983, 0, 0, << c_setFillColor(HexColor.C_LIGHT_YELLOW) >>),
    Stmt("c.setStrokeColor", 984, 0, 0, << c_setStrokeColor(HexColor.C_GEN) >>),
    Stmt("c.setLineWidth", 985, 0, 0, << c_setLineWidth(5) >>),
    Stmt("c.setDash", 986, 0, 0, << c_setDash(3 * pt, 2 * pt) >>),
    Stmt("c.rect", 987, 0, 0, << c_rect(18 * mm, 148 * mm, 80 * mm, 38 * mm, 1, 1) >>),
    Stmt("c.setDash", 988, 0, 0, << c_setDashSolid >>),
    Stmt("c.setFillColor", 989, 0, 0, << c_setFillColor(HexColor.C_GEN) >>),
    Stmt("c.setFont", 990, 0, 0, << c_setFont("Helvetica-Bold", 60) >>),
    Stmt("c.drawString", 991, 0, 0, << c_drawString(20 * mm, 180 * mm, <<"OUTDOOR -- COOLING YARD">>) >>),
    Stmt("equip_box", 998, 995, 1, equip_box(26 * mm, 168 * mm, 22 * mm, 10 * mm, <<"CT-1">>, <<"500kW Reject">>, "#85c1e9", FALSE)),
    Stmt("equip_box", 998, 995, 2, equip_box(52 * mm, 168 * mm, 22 * mm, 10 * mm, <<"CT-2">>, <<"500kW Reject">>, "#85c1e9", FALSE)),
    Stmt("equip_box", 998, 995, 3, equip_box(78 * mm, 168 * mm, 22 * mm, 10 * mm, <<"CT-3 (", "N+1", ")">>, <<"500kW Reject">>, "#85c1e9", TRUE)),
    Stmt("c.setFont", 1003, 0, 0, << c_setFont("Helvetica", 45) >>),
    Stmt("c.setFillColor", 1004, 0, 0, << c_setFillColor(HexColor.C_COOL_RETURN) >>),
    Stmt("c.drawCentredString", 1005, 0, 0, << c_drawCentredString(58 * mm, 153 * mm, <<"Condenser Water Loop (32degC/37degC)">>) >>),
    Stmt("c.setFillColor", 1012, 0, 0, << c_setFillColor(HexColor.C_LIGHT_BLUE) >>),
    Stmt("c.setStrokeColor", 1013, 0, 0, << c_setStrokeColor(HexColor.C_COOL_SUPPLY) >>),
    Stmt("c.setLineWidth", 1014, 0, 0, << c_setLineWidth(5) >>),
    Stmt("c.setDash", 1015, 0, 0, << c_setDash(3 * pt, 2 * pt) >>),
    Stmt("c.rect", 1016, 0, 0, << c_rect(18 * mm, 110 * mm, 80 * mm, 34 * mm, 1, 1) >>),
    Stmt("c.setDash", 1017, 0, 0, << c_setDashSolid >>),
    Stmt("c.setFillColor", 1018, 0, 0, << c_setFillColor(HexColor.C_COOL_SUPPLY) >>),
    Stmt("c.setFont", 1019, 0, 0, << c_setFont("Helvetica-Bold", 60) >>),
    Stmt("c.drawString", 1020, 0, 0, << c_drawString(20 * mm, 138 * mm, <<"CHILLER PLANT ROOM">>) >>),
    Stmt("equip_box", 1027, 1024, 1, equip_box(26 * mm, 126 * mm, 22 * mm, 10 * mm, <<"CH-1">>, <<"500kW">>, HexColor.C_COOL_SUPPLY, FALSE)),
    Stmt("equip_box", 1027, 1024, 2, equip_box(52 * mm, 126 * mm, 22 * mm, 10 * mm, <<"CH-2">>, <<"500kW">>, HexColor.C_COOL_SUPPLY, FALSE)),
    Stmt("equip_box", 1027, 1024, 3, equip_box(78 * mm, 126 * mm, 22 * mm, 10 * mm, <<"CH-3 (", "N+1", ")">>, <<"500kW">>, HexColor.C_COOL_SUPPLY, TRUE)),
    Stmt("c.setFont", 1033, 0, 0, << c_setFont("Helvetica-Bold", 50) >>),
    Stmt("c.setFillColor", 1034, 0, 0, << c_setFillColor("black") >>),
    Stmt("c.drawString", 1035, 0, 0, << c_drawString(22 * mm, 119 * mm, <<"PRIMARY CHW PUMPS">>) >>),
    Stmt("c.setFillColor", 1039, 1036, 1, << c_setFillColor(HexColor.C_MECH) >>),
    Stmt("c.setStrokeColor", 1040, 1036, 1, << c_setStrokeColor("black") >>),
    Stmt("c.setLineWidth", 1041, 1036, 1, << c_setLineWidth(6) >>),
    Stmt("c.circle", 1044, 1036, 1, << c_circle(31 * mm, 113 * mm, 4 * mm, 1, 1) >>),
    Stmt("c.setFillColor", 1047, 1036, 1, << c_setFillColor("white") >>),
    Stmt("c.setFont", 1048, 1036, 1, << c_setFont("Helvetica-Bold", 50) >>),
    Stmt("c.drawCentredString", 1049, 1036, 1, << c_drawCentredString(31 * mm, (1115 * mm) \div 10, <<"P1">>) >>),
    Stmt("c.setFillColor", 1039, 1036, 2, << c_setFillColor(HexColor.C_MECH) >>),
    Stmt("c.setStrokeColor", 1040, 1036, 2, << c_setStrokeColor("black") >>),
    Stmt("c.setLineWidth", 1041, 1036, 2, << c_setLineWidth(6) >>),
    Stmt("c.circle", 1044, 1036, 2, << c_circle(57 * mm, 113 * mm, 4 * mm, 1, 1) >>),
    Stmt("c.setFillColor", 1047, 1036, 2, << c_setFillColor("white") >>),
    Stmt("c.setFont", 1048, 1036, 2, << c_setFont("Helvetica-Bold", 50) >>),
    Stmt("c.drawCentredString", 1049, 1036, 2, << c_drawCentredString(57 * mm, (1115 * mm) \div 10, <<"P2">>) >>),
    Stmt("c.setFillColor", 1039, 1036, 3, << c_setFillColor(HexColor.C_MECH) >>),
    Stmt("c.setStrokeColor", 1040, 1036, 3, << c_setStrokeColor(HexColor.C_DASHED) >>),
    Stmt("c.setLineWidth", 1041, 1036, 3, << c_setLineWidth(6) >>),
    Stmt("c.setDash", 1043, 1036, 3, << c_setDash(3 * pt, 2 * pt) >>),
    Stmt("c.circle", 1044, 1036, 3, << c_circle(83 * mm, 113 * mm, 4 * mm, 1, 1) >>),
    Stmt("c.setDash", 1046, 1036, 3, << c_setDashSolid >>),
    Stmt("c.setFillColor", 1047, 1036, 3, << c_setFillColor("white") >>),
    Stmt("c.setFont", 1048, 1036, 3, << c_setFont("Helvetica-Bold", 50) >>),
    Stmt("c.drawCentredString", 1049, 1036, 3, << c_drawCentredString(83 * mm, (1115 * mm) \div 10, <<"P3">>) >>),
    Stmt("c.setStrokeColor", 1052, 0, 0, << c_setStrokeColor(HexColor.C_COOL_SUPPLY) >>),
    Stmt("c.setLineWidth", 1053, 0, 0, << c_setLineWidth(20) >>),
    Stmt("c.line", 1054, 0, 0, << c_line(38 * mm, 148 * mm, 38 * mm, 144 * mm) >>),
    Stmt("c.setStrokeColor", 1055, 0, 0, << c_setStrokeColor(HexColor.C_COOL_RETURN) >>),
    Stmt("c.setLineWidth", 1056, 0, 0, << c_setLineWidth(20) >>),
    Stmt("c.line", 1057, 0, 0, << c_line(78 * mm, 148 * mm, 78 * mm, 144 * mm) >>),
    Stmt("c.setFillColor", 1065, 0, 0, << c_setFillColor("white") >>),
    Stmt("c.setStrokeColor", 1066, 0, 0, << c_setStrokeColor(HexColor.C_WALL) >>),
    Stmt("c.setLineWidth", 1067, 0, 0, << c_setLineWidth(10) >>),
    Stmt("c.rect", 1068, 0, 0, << c_rect(106 * mm, 110 * mm, 173 * mm, 76 * mm, 1, 1) >>),
    Stmt("c.setFillColor", 1069, 0, 0, << c_setFillColor(HexColor.C_WALL) >>),
    Stmt("c.setFont", 1070, 0, 0, << c_setFont("Helvetica-Bold", 70) >>),
    Stmt("c.drawCentredString", 1071, 0, 0, << c_drawCentredString((1925 * mm) \div 10, 179 * mm, <<"DATA HALL -- CHW DISTRIBUTION">>) >>),
    Stmt("c.setStrokeColor", 1075, 0, 0, << c_setStrokeColor(HexColor.C_COOL_SUPPLY) >>),
    Stmt("c.setLineWidth", 1076, 0, 0, << c_setLineWidth(25) >>),
    Stmt("c.line", 1077, 0, 0, << c_line(111 * mm, 168 * mm, 274 * mm, 168 * mm) >>),
    Stmt("c.setFont", 1078, 0, 0, << c_setFont("Helvetica-Bold", 50) >>),
    Stmt("c.setFillColor", 1079, 0, 0, << c_setFillColor(HexColor.C_COOL_SUPPLY) >>),
    Stmt("c.drawString", 1080, 0, 0, << c_drawString(113 * mm, 170 * mm, <<"CHW SUPPLY (7degC)">>) >>),
    Stmt("c.setStrokeColor", 1083, 0, 0, << c_setStrokeColor(HexColor.C_COOL_RETURN) >>),
    Stmt("c.setLineWidth", 1084, 0, 0, << c_setLineWidth(25) >>),
    Stmt("c.line", 1085, 0, 0, << c_line(111 * mm, 158 * mm, 274 * mm, 158 * mm) >>),
    Stmt("c.setFillColor", 1086, 0, 0, << c_setFillColor(HexColor.C_COOL_RETURN) >>),
    Stmt("c.drawString", 1087, 0, 0, << c_drawString(113 * mm, 160 * mm, <<"CHW RETURN (12degC)">>) >>),
    Stmt("c.setStrokeColor", 1090, 0, 0, << c_setStrokeColor(HexColor.C_COOL_SUPPLY) >>),
    Stmt("c.setLineWidth", 1091, 0, 0, << c_setLineWidth(20) >>),
    Stmt("c.line", 1092, 0, 0, << c_line(98 * mm, 134 * mm, 106 * mm, 168 * mm) >>),
    Stmt("c.setStrokeColor", 1093, 0, 0, << c_setStrokeColor(HexColor.C_COOL_RETURN) >>),
    Stmt("c.line", 1094, 0, 0, << c_line(98 * mm, 120 * mm, 106 * mm, 158 * mm) >>),
    Stmt("c.setFont", 1100, 0, 0, << c_setFont("Helvetica-Bold", 50) >>),
    Stmt("c.setFillColor", 1101, 0, 0, << c_setFillColor("black") >>),
    Stmt("c.drawString", 1102, 0, 0, << c_drawString(111 * mm, 150 * mm, <<"CRAH UNITS (", "N+1", ")">>) >>),
    Stmt("equip_box", 1107, 1104, 1, equip_box(114 * mm, 136 * mm, (286 * mm) \div 10, 12 * mm, <<"CRAH-1">>, <<"150kW">>, "#a9cce3", FALSE)),
    Stmt("c.setStrokeColor", 1111, 1104, 1, << c_setStrokeColor(HexColor.C_COOL_SUPPLY) >>),
    Stmt("c.setLineWidth", 1112, 1104, 1, << c_setLineWidth(8) >>),
    Stmt("c.line", 1113, 1104, 1, << c_line((1263 * mm) \div 10, 168 * mm, (1263 * mm) \div 10, 148 * mm) >>),
    Stmt("c.setStrokeColor", 1114, 1104, 1, << c_setStrokeColor(HexColor.C_COOL_RETURN) >>),
    Stmt("c.line", 1115, 1104, 1, << c_line((1303 * mm) \div 10, 158 * mm, (1303 * mm) \div 10, 148 * mm) >>),
    Stmt("equip_box", 1107, 1104, 2, equip_box((1466 * mm) \div 10, 136 * mm, (286 * mm) \div 10, 12 * mm, <<"CRAH-2">>, <<"150kW">>, "#a9cce3", FALSE)),
    Stmt("c.setStrokeColor", 1111, 1104, 2, << c_setStrokeColor(HexColor.C_COOL_SUPPLY) >>),
    Stmt("c.setLineWidth", 1112, 1104, 2, << c_setLineWidth(8) >>),
    Stmt("c.line", 1113, 1104, 2, << c_line((1589 * mm) \div 10, 168 * mm, (1589 * mm) \div 10, 148 * mm) >>),
    Stmt("c.setStrokeColor", 1114, 1104, 2, << c_setStrokeColor(HexColor.C_COOL_RETURN) >>),
    Stmt("c.line", 1115, 1104, 2, << c_line((1629 * mm) \div 10, 158 * mm, (1629 * mm) \div 10, 148 * mm) >>),
    Stmt("equip_box", 1107, 1104, 3, equip_box((1792 * mm) \div 10, 136 * mm, (286 * mm) \div 10, 12 * mm, <<"CRAH-3">>, <<"150kW">>, "#a9cce3", FALSE)),
    Stmt("c.setStrokeColor", 1111, 1104, 3, << c_setStrokeColor(HexColor.C_COOL_SUPPLY) >>),
    Stmt("c.setLineWidth", 1112, 1104, 3, << c_setLineWidth(8) >>),
    Stmt("c.line", 1113, 1104, 3, << c_line((1915 * mm) \div 10, 168 * mm, (1915 * mm) \div 10, 148 * mm) >>),
    Stmt("c.setStrokeColor", 1114, 1104, 3, << c_setStrokeColor(HexColor.C_COOL_RETURN) >>),
    Stmt("c.line", 1115, 1104, 3, << c_line((1955 * mm) \div 10, 158 * mm, (1955 * mm) \div 10, 148 * mm) >>),
    Stmt("equip_box", 1107, 1104, 4, equip_box((2118 * mm) \div 10, 136 * mm, (286 * mm) \div 10, 12 * mm, <<"CRAH-4">>, <<"150kW">>, "#a9cce3", FALSE)),
    Stmt("c.setStrokeColor", 1111, 1104, 4, << c_setStrokeColor(HexColor.C_COOL_SUPPLY) >>),
    Stmt("c.setLineWidth", 1112, 1104, 4, << c_setLineWidth(8) >>),
    Stmt("c.line", 1113, 1104, 4, << c_line((2241 * mm) \div 10, 168 * mm, (2241 * mm) \div 10, 148 * mm) >>),
    Stmt("c.setStrokeColor", 1114, 1104, 4, << c_setStrokeColor(HexColor.C_COOL_RETURN) >>),
    Stmt("c.line", 1115, 1104, 4, << c_line((2281 * mm) \div 10, 158 * mm, (2281 * mm) \div 10, 148 * mm) >>),
    Stmt("equip_box", 1107, 1104, 5, equip_box((2444 * mm) \div 10, 136 * mm, (286 * mm) \div 10, 12 * mm, <<"CRAH-5 (", "N+1", ")">>, <<"150kW">>, "#a9cce3", TRUE)),
    Stmt("c.setStrokeColor", 1111, 1104, 5, << c_setStrokeColor(HexColor.C_COOL_SUPPLY) >>),
    Stmt("c.setLineWidth", 1112, 1104, 5, << c_setLineWidth(8) >>),
    Stmt("c.line", 1113, 1104, 5, << c_line((2567 * mm) \div 10, 168 * mm, (2567 * mm) \div 10, 148 * mm) >>),
    Stmt("c.setStrokeColor", 1114, 1104, 5, << c_setStrokeColor(HexColor.C_COOL_RETURN) >>),
    Stmt("c.line", 1115, 1104, 5, << c_line((2607 * mm) \div 10, 158 * mm, (2607 * mm) \div 10, 148 * mm) >>),
    Stmt("c.setFont", 1119, 0, 0, << c_setFont("Helvetica-Bold", 50) >>),
    Stmt("c.setFillColor", 1120, 0, 0, << c_setFillColor("black") >>),
    Stmt("c.drawString", 1121, 0, 0, << c_drawString(111 * mm, 128 * mm, <<"AIRFLOW PATTERN">>) >>),
    Stmt("c.setFillColor", 1126, 0, 0, << c_setFillColor("#d6eaf8") >>),
    Stmt("c.setStrokeColor", 1127, 0, 0, << c_setStrokeColor(HexColor.C_COLD) >>),
    Stmt("c.setLineWidth", 1128, 0, 0, << c_setLineWidth(6) >>),
    Stmt("c.rect", 1129, 0, 0, << c_rect(121 * mm, 116 * mm, 143 * mm, 8 * mm, 1, 1) >>),
    Stmt("c.setFillColor", 1130, 0, 0, << c_setFillColor(HexColor.C_COLD) >>),
    Stmt("c.setFont", 1131, 0, 0, << c_setFont("Helvetica-Bold", 50) >>),
    Stmt("c.drawCentredString", 1132, 0, 0, << c_drawCentredString((1925 * mm) \div 10, 119 * mm, <<"COLD AISLE (18-27degC per ASHRAE)">>) >>),
    Stmt("draw_arrow", 1137, 1135, 1, draw_arrow(131 * mm, 136 * mm, 131 * mm, 124 * mm, HexColor.C_COLD, 6)),
    Stmt("draw_arrow", 1137, 1135, 2, draw_arrow(((1554 * mm) \div 10 + 18 * pt), 136 * mm, ((1554 * mm) \div 10 + 18 * pt), 124 * mm, HexColor.C_COLD, 6)),
    Stmt("draw_arrow", 1137, 1135, 3, draw_arrow((1925 * mm) \div 10, 136 * mm, (1925 * mm) \div 10, 124 * mm, HexColor.C_COLD, 6)),
    Stmt("draw_arrow", 1137, 1135, 4, draw_arrow(((2169 * mm) \div 10 + 18 * pt), 136 * mm, ((2169 * mm) \div 10 + 18 * pt), 124 * mm, HexColor.C_COLD, 6)),
    Stmt("draw_arrow", 1137, 1135, 5, draw_arrow(254 * mm, 136 * mm, 254 * mm, 124 * mm, HexColor.C_COLD, 6)),
    Stmt("c.setFillColor", 1141, 0, 0, << c_setFillColor("#fadbd8") >>),
    Stmt("c.setStrokeColor", 1142, 0, 0, << c_setStrokeColor(HexColor.C_HOT) >>),
    Stmt("c.setLineWidth", 1143, 0, 0, << c_setLineWidth(6) >>),
    Stmt("c.rect", 1144, 0, 0, << c_rect(121 * mm, 106 * mm, 143 * mm, 8 * mm, 1, 1) >>),
    Stmt("c.setFillColor", 1145, 0, 0, << c_setFillColor(HexColor.C_HOT) >>),
    Stmt("c.setFont", 1146, 0, 0, << c_setFont("Helvetica-Bold", 50) >>),
    Stmt("c.drawCentredString", 1147, 0, 0, << c_drawCentredString((1925 * mm) \div 10, 109 * mm, <<"HOT AISLE (< 40degC)">>) >>),
    Stmt("draw_arrow", 1152, 1150, 1, draw_arrow(131 * mm, 114 * mm, 131 * mm, 116 * mm, HexColor.C_HOT, 6)),
    Stmt("draw_arrow", 1152, 1150, 2, draw_arrow(((1554 * mm) \div 10 + 18 * pt), 114 * mm, ((1554 * mm) \div 10 + 18 * pt), 116 * mm, HexColor.C_HOT, 6)),
    Stmt("draw_arrow", 1152, 1150, 3, draw_arrow((1925 * mm) \div 10, 114 * mm, (1925 * mm) \div 10, 116 * mm, HexColor.C_HOT, 6)),
    Stmt("draw_arrow", 1152, 1150, 4, draw_arrow(((2169 * mm) \div 10 + 18 * pt), 114 * mm, ((2169 * mm) \div 10 + 18 * pt), 116 * mm, HexColor.C_HOT, 6)),
    Stmt("draw_arrow", 1152, 1150, 5, draw_arrow(254 * mm, 114 * mm, 254 * mm, 116 * mm, HexColor.C_HOT, 6)),
    Stmt("c.setFillColor", 1157, 0, 0, << c_setFillColor("#d5dbdb") >>),
    Stmt("c.setStrokeColor", 1158, 0, 0, << c_setStrokeColor("black") >>),
    Stmt("c.setLineWidth", 1159, 0, 0, << c_setLineWidth(6) >>),
    Stmt("c.roundRect", 1160, 0, 0, << c_roundRect(111 * mm, 113 * mm, 60 * mm, 12 * mm, 2 * mm, 1, 1) >>),
    Stmt("c.setFillColor", 1161, 0, 0, << c_setFillColor("black") >>),
    Stmt("c.setFont", 1162, 0, 0, << c_setFont("Helvetica-Bold", 50) >>),
    Stmt("c.drawCentredString", 1163, 0, 0, << c_drawCentredString(141 * mm, 119 * mm, <<"ENVIRONMENTAL MONITORING">>) >>),
    Stmt("c.setFont", 1164, 0, 0, << c_setFont("Helvetica", 40) >>),
    Stmt("c.drawCentredString", 1165, 0, 0, << c_drawCentredString(141 * mm, 115 * mm, <<"Temp / Humidity / Leak / Airflow Sensors -> BMS">>) >>),
    Stmt("c.setStrokeColor", 1170, 0, 0, << c_setStrokeColor("black") >>),
    Stmt("c.setFillColor", 1171, 0, 0, << c_setFillColor("white") >>),
    Stmt("c.setLineWidth", 1172, 0, 0, << c_setLineWidth(5) >>),
    Stmt("c.rect", 1173, 0, 0, << c_rect(18 * mm, 54 * mm, 55 * mm, 30 * mm, 1, 1) >>),
    Stmt("c.setFillColor", 1174, 0, 0, << c_setFillColor("black") >>),
    Stmt("c.setFont", 1175, 0, 0, << c_setFont("Helvetica-Bold", 60) >>),
    Stmt("c.drawString", 1176, 0, 0, << c_drawString(20 * mm, 79 * mm, <<"LEGEND">>) >>),
    Stmt("c.setLineWidth", 1177, 0, 0, << c_setLineWidth(3) >>),
    Stmt("c.line", 1178, 0, 0, << c_line(20 * mm, 78 * mm, 71 * mm, 78 * mm) >>),
    Stmt("draw_legend_item", 1180, 0, 0, draw_legend_item(20 * mm, 73 * mm, HexColor.C_COOL_SUPPLY, <<"CHW Supply (7degC)">>, "line")),
    Stmt("draw_legend_item", 1181, 0, 0, draw_legend_item(20 * mm, 68 * mm, HexColor.C_COOL_RETURN, <<"CHW Return (12degC)">>, "line")),
    Stmt("draw_legend_item", 1182, 0, 0, draw_legend_item(20 * mm, 63 * mm, HexColor.C_COLD, <<"Cold Air (18-27degC)">>, "rect")),
    Stmt("draw_legend_item", 1183, 0, 0, draw_legend_item(20 * mm, 58 * mm, HexColor.C_HOT, <<"Hot Air Exhaust">>, "rect")),
    Stmt("draw_legend_item", 1184, 0, 0, draw_legend_item(20 * mm, 53 * mm, HexColor.C_DASHED, <<"N+1", " Spare Equipment">>, "dash"))
  >>

(* draw_fire: the calls of the body after the sheet frame, in order: the source *)
(* line of each call, the for statement it is in and its iteration.              *)
draw_fire_calls ==
  <<
    Stmt("c.setFillColor", 1216, 0, 0, << c_setFillColor(HexColor.C_FIRE) >>),
    Stmt("c.setStrokeColor", 1217, 0, 0, << c_setStrokeColor("black") >>),
    Stmt("c.setLineWidth", 1218, 0, 0, << c_setLineWidth(20) >>),
    Stmt("c.roundRect", 1219, 0, 0, << c_roundRect((1185 * mm) \div 10, 170 * mm, 60 * mm, 16 * mm, 3 * mm, 1, 1) >>),
    Stmt("c.setFillColor", 1220, 0, 0, << c_setFillColor("white") >>),
    Stmt("c.setFont", 1221, 0, 0, << c_setFont("Helvetica-Bold", 90) >>),
    Stmt("c.drawCentredString", 1222, 0, 0, << c_drawCentredString((1485 * mm) \div 10, 180 * mm, <<"FACP">>) >>),
    Stmt("c.setFont", 1223, 0, 0, << c_setFont("Helvetica", 50) >>),
    Stmt("c.drawCentredString", 1224, 0, 0, << c_drawCentredString((1485 * mm) \div 10, 173 * mm, <<"Fire Alarm Control Panel (Redundant, SIL 2)">>) >>),
    Stmt("sys_box", 1228, 0, 0, sys_box((1825 * mm) \div 10, 172 * mm, 26 * mm, 12 * mm, <<"BATTERY">>, <<"72hr Standby">>, "#fdebd0", "black")),
    Stmt("c.setStrokeColor", 1230, 0, 0, << c_setStrokeColor(HexColor.C_FIRE) >>),
    Stmt("c.setLineWidth", 1231, 0, 0, << c_setLineWidth(10) >>),
    Stmt("c.line", 1232, 0, 0, << c_line((1785 * mm) \div 10, 178 * mm, (1825 * mm) \div 10, 178 * mm) >>),
    Stmt("c.setFont", 1236, 0, 0, << c_setFont("Helvetica-Bold", 70) >>),
    Stmt("c.setFillColor", 1237, 0, 0, << c_setFillColor(HexColor.C_FIRE) >>),
    Stmt("c.drawString", 1238, 0, 0, << c_drawString(22 * mm, 162 * mm, <<"DETECTION TIER">>) >>),
    Stmt("c.setLineWidth", 1239, 0, 0, << c_setLineWidth(3) >>),
    Stmt("c.line", 1240, 0, 0, << c_line(22 * mm, 161 * mm, 74 * mm, 161 * mm) >>),
    Stmt("sys_box", 1251, 1249, 1, sys_box(22 * mm, 140 * mm, 54 * mm, 14 * mm, <<"VESDA Zone 1">>, <<"Data Hall - Rows A/B">>, HexColor.C_LIGHT_RED, HexColor.C_FIRE)),
    Stmt("c.setStrokeColor", 1253, 1249, 1, << c_setStrokeColor(HexColor.C_FIRE) >>),
    Stmt("c.setLineWidth", 1254, 1249, 1, << c_setLineWidth(6) >>),
    Stmt("c.line", 1255, 1249, 1, << c_line(49 * mm, 154 * mm, (1485 * mm) \div 10, 170 * mm) >>),
    Stmt("sys_box", 1251, 1249, 2, sys_box(82 * mm, 140 * mm, 54 * mm, 14 * mm, <<"VESDA Zone 2">>, <<"Data Hall - Rows C/D">>, HexColor.C_LIGHT_RED, HexColor.C_FIRE)),
    Stmt("c.setStrokeColor", 1253, 1249, 2, << c_setStrokeColor(HexColor.C_FIRE) >>),
    Stmt("c.setLineWidth", 1254, 1249, 2, << c_setLineWidth(6) >>),
    Stmt("c.line", 1255, 1249, 2, << c_line(109 * mm, 154 * mm, (1485 * mm) \div 10, 170 * mm) >>),
    Stmt("sys_box", 1251, 1249, 3, sys_box(142 * mm, 140 * mm, 54 * mm, 14 * mm, <<"VESDA Zone 3">>, <<"Electrical / UPS">>, HexColor.C_LIGHT_RED, HexColor.C_FIRE)),
    Stmt("c.setStrokeColor", 1253, 1249, 3, << c_setStrokeColor(HexColor.C_FIRE) >>),
    Stmt("c.setLineWidth", 1254, 1249, 3, << c_setLineWidth(6) >>),
    Stmt("c.line", 1255, 1249, 3, << c_line(169 * mm, 154 * mm, (1485 * mm) \div 10, 170 * mm) >>),
    Stmt("sys_box", 1251, 1249, 4, sys_box(202 * mm, 140 * mm, 54 * mm, 14 * mm, <<"VESDA Zone 4">>, <<"Under-Floor Plenum">>, HexColor.C_LIGHT_RED, HexColor.C_FIRE)),
    Stmt("c.setStrokeColor", 1253, 1249, 4, << c_setStrokeColor(HexColor.C_FIRE) >>),
    Stmt("c.setLineWidth", 1254, 1249, 4, << c_setLineWidth(6) >>),
    Stmt("c.line", 1255, 1249, 4, << c_line(229 * mm, 154 * mm, (1485 * mm) \div 10, 170 * mm) >>),
    Stmt("c.setFont", 1259, 0, 0, << c_setFont("Helvetica", 50) >>),
    Stmt("c.setFillColor", 1260, 0, 0, << c_setFillColor("black") >>),
    Stmt("c.drawString", 1261, 0, 0, << c_drawString(22 * mm, 134 * mm, <<"POINT DETECTORS:">>) >>),
    Stmt("c.setFillColor", 1265, 1263, 1, << c_setFillColor(HexColor.C_LIGHT_RED) >>),
    Stmt("c.setStrokeColor", 1266, 1263, 1, << c_setStrokeColor(HexColor.C_FIRE) >>),
    Stmt("c.setLineWidth", 1267, 1263, 1, << c_setLineWidth(5) >>),
    Stmt("c.circle", 1268, 1263, 1, << c_circle(27 * mm, 126 * mm, 3 * mm, 1, 1) >>),
    Stmt("c.setFillColor", 1269, 1263, 1, << c_setFillColor("black") >>),
    Stmt("c.setFont", 1270, 1263, 1, << c_setFont("Helvetica", 50) >>),
    Stmt("c.drawString", 1271, 1263, 1, << c_drawString(32 * mm, 124 * mm, <<"Photoelectric Smoke">>) >>),
    Stmt("c.setFillColor", 1265, 1263, 2, << c_setFillColor(HexColor.C_LIGHT_RED) >>),
    Stmt("c.setStrokeColor", 1266, 1263, 2, << c_setStrokeColor(HexColor.C_FIRE) >>),
    Stmt("c.setLineWidth", 1267, 1263, 2, << c_setLineWidth(5) >>),
    Stmt("c.circle", 1268, 1263, 2, << c_circle(87 * mm, 126 * mm, 3 * mm, 1, 1) >>),
    Stmt("c.setFillColor", 1269, 1263, 2, << c_setFillColor("black") >>),
    Stmt("c.setFont", 1270, 1263, 2, << c_setFont("Helvetica", 50) >>),
    Stmt("c.drawString", 1271, 1263, 2, << c_drawString(92 * mm, 124 * mm, <<"Heat (Rate-of-Rise)">>) >>),
    Stmt("c.setFillColor", 1265, 1263, 3, << c_setFillColor(HexColor.C_LIGHT_RED) >>),
    Stmt("c.setStrokeColor", 1266, 1263, 3, << c_setStrokeColor(HexColor.C_FIRE) >>),
    Stmt("c.setLineWidth", 1267, 1263, 3, << c_setLineWidth(5) >>),
    Stmt("c.circle", 1268, 1263, 3, << c_circle(147 * mm, 126 * mm, 3 * mm, 1, 1) >>),
    Stmt("c.setFillColor", 1269, 1263, 3, << c_setFillColor("black") >>),
    Stmt("c.setFont", 1270, 1263, 3, << c_setFont("Helvetica", 50) >>),
    Stmt("c.drawString", 1271, 1263, 3, << c_drawString(152 * mm, 124 * mm, <<"Beam Detector">>) >>),
    Stmt("c.setFillColor", 1265, 1263, 4, << c_setFillColor(HexColor.C_LIGHT_RED) >>),
    Stmt("c.setStrokeColor", 1266, 1263, 4, << c_setStrokeColor(HexColor.C_FIRE) >>),
    Stmt("c.setLineWidth", 1267, 1263, 4, << c_setLineWidth(5) >>),
    Stmt("c.circle", 1268, 1263, 4, << c_circle(207 * mm, 126 * mm, 3 * mm, 1, 1) >>),
    Stmt("c.setFillColor", 1269, 1263, 4, << c_setFillColor("black") >>),
    Stmt("c.setFont", 1270, 1263, 4, << c_setFont("Helvetica", 50) >>),
    Stmt("c.drawString", 1271, 1263, 4, << c_drawString(212 * mm, 124 * mm, <<"Manual Pull Stations">>) >>),
    Stmt("c.setFont", 1275, 0, 0, << c_setFont("Helvetica-Bold", 70) >>),
    Stmt("c.setFillColor", 1276, 0, 0, << c_setFillColor(HexColor.C_FIRE) >>),
    Stmt("c.drawString", 1277, 0, 0, << c_drawString(22 * mm, 118 * mm, <<"SUPPRESSION TIER">>) >>),
    Stmt("c.setLineWidth", 1278, 0, 0, << c_setLineWidth(3) >>),
    Stmt("c.line", 1279, 0, 0, << c_line(22 * mm, 117 * mm, 79 * mm, 117 * mm) >>),
    Stmt("sys_box", 1283, 0, 0, sys_box(22 * mm, 96 * mm, 75 * mm, 16 * mm, <<"CLEAN AGENT -- NOVEC 1230 / FM-200">>, <<"Data Hall + Electrical Rooms">>, HexColor.C_FIRE, HexColor.C_FIRE)),
    Stmt("sys_box", 1289, 0, 0, sys_box(102 * mm, 96 * mm, 50 * mm, 16 * mm, <<"AGENT STORAGE">>, <<"Cylinders + Manifold">>, "#fdebd0", "black")),
    Stmt("c.setStrokeColor", 1292, 0, 0, << c_setStrokeColor(HexColor.C_FIRE) >>),
    Stmt("c.setLineWidth", 1293, 0, 0, << c_setLineWidth(10) >>),
    Stmt("c.line", 1294, 0, 0, << c_line(97 * mm, 104 * mm, 102 * mm, 104 * mm) >>),
    Stmt("sys_box", 1298, 0, 0, sys_box(157 * mm, 96 * mm, 55 * mm, 16 * mm, <<"PRE-ACTION SPRINKLER">>, <<"Support Areas / Corridors">>, "#a9cce3", "black")),
    Stmt("c.setFont", 1304, 0, 0, << c_setFont("Helvetica-Bold", 70) >>),
    Stmt("c.setFillColor", 1305, 0, 0, << c_setFillColor(HexColor.C_FIRE) >>),
    Stmt("c.drawString", 1306, 0, 0, << c_drawString(22 * mm, 86 * mm, <<"INTEGRATION & NOTIFICATION">>) >>),
    Stmt("c.setLineWidth", 1307, 0, 0, << c_setLineWidth(3) >>),
    Stmt("c.line", 1308, 0, 0, << c_line(22 * mm, 85 * mm, 89 * mm, 85 * mm) >>),
    Stmt("sys_box", 1318, 1316, 1, sys_box(22 * mm, 64 * mm, 56 * mm, 14 * mm, <<"EPO SYSTEM">>, <<"Emergency Power Off">>, HexColor.C_ELEC_A, "black")),
    Stmt("c.setStrokeColor", 1320, 1316, 1, << c_setStrokeColor(HexColor.C_FIRE) >>),
    Stmt("c.setLineWidth", 1321, 1316, 1, << c_setLineWidth(5) >>),
    Stmt("c.setDash", 1322, 1316, 1, << c_setDash(2 * pt, (3 * pt) \div 2) >>),
    Stmt("c.line", 1324, 1316, 1, << c_line(50 * mm, 78 * mm, 50 * mm, 82 * mm) >>),
    Stmt("c.line", 1325, 1316, 1, << c_line(50 * mm, 82 * mm, (1485 * mm) \div 10, 82 * mm) >>),
    Stmt("c.setDash", 1326, 1316, 1, << c_setDashSolid >>),
    Stmt("sys_box", 1318, 1316, 2, sys_box(84 * mm, 64 * mm, 56 * mm, 14 * mm, <<"BMS / SCADA">>, <<"Building Management">>, HexColor.C_MECH, "black")),
    Stmt("c.setStrokeColor", 1320, 1316, 2, << c_setStrokeColor(HexColor.C_FIRE) >>),
    Stmt("c.setLineWidth", 1321, 1316, 2, << c_setLineWidth(5) >>),
    Stmt("c.setDash", 1322, 1316, 2, << c_setDash(2 * pt, (3 * pt) \div 2) >>),
    Stmt("c.line", 1324, 1316, 2, << c_line(112 * mm, 78 * mm, 112 * mm, 82 * mm) >>),
    Stmt("c.line", 1325, 1316, 2, << c_line(112 * mm, 82 * mm, (1485 * mm) \div 10, 82 * mm) >>),
    Stmt("c.setDash", 1326, 1316, 2, << c_setDashSolid >>),
    Stmt("sys_box", 1318, 1316, 3, sys_box(146 * mm, 64 * mm, 56 * mm, 14 * mm, <<"HVAC SHUTDOWN">>, <<"Damper Close on Alarm">>, HexColor.C_COOL_SUPPLY, "black")),
    Stmt("c.setStrokeColor", 1320, 1316, 3, << c_setStrokeColor(HexColor.C_FIRE) >>),
    Stmt("c.setLineWidth", 1321, 1316, 3, << c_setLineWidth(5) >>),
    Stmt("c.setDash", 1322, 1316, 3, << c_setDash(2 * pt, (3 * pt) \div 2) >>),
    Stmt("c.line", 1324, 1316, 3, << c_line(174 * mm, 78 * mm, 174 * mm, 82 * mm) >>),
    Stmt("c.line", 1325, 1316, 3, << c_line(174 * mm, 82 * mm, (1485 * mm) \div 10, 82 * mm) >>),
    Stmt("c.setDash", 1326, 1316, 3, << c_setDashSolid >>),
    Stmt("sys_box", 1318, 1316, 4, sys_box(208 * mm, 64 * mm, 56 * mm, 14 * mm, <<"NOTIFICATION">>, <<"Strobe/Horn + Remote">>, "#f39c12", "black")),
    Stmt("c.setStrokeColor", 1320, 1316, 4, << c_setStrokeColor(HexColor.C_FIRE) >>),
    Stmt("c.setLineWidth", 1321, 1316, 4, << c_setLineWidth(5) >>),
    Stmt("c.setDash", 1322, 1316, 4, << c_setDash(2 * pt, (3 * pt) \div 2) >>),
    Stmt("c.line", 1324, 1316, 4, << c_line(236 * mm, 78 * mm, 236 * mm, 82 * mm) >>),
    Stmt("c.line", 1325, 1316, 4, << c_line(236 * mm, 82 * mm, (1485 * mm) \div 10, 82 * mm) >>),
    Stmt("c.setDash", 1326, 1316, 4, << c_setDashSolid >>),
    Stmt("c.setFont", 1330, 0, 0, << c_setFont("Helvetica-Bold", 70) >>),
    Stmt("c.setFillColor", 1331, 0, 0, << c_setFillColor("black") >>),
    Stmt("c.drawString", 1332, 0, 0, << c_drawString(22 * mm, 58 * mm, <<"SEQUENCE OF OPERATIONS">>) >>),
    Stmt("c.setLineWidth", 1333, 0, 0, << c_setLineWidth(5) >>),
    Stmt("c.line", 1334, 0, 0, << c_line(22 * mm, 57 * mm, 86 * mm, 57 * mm) >>),
    Stmt("c.setFillColor", 1348, 1346, 1, << c_setFillColor("#f5b041") >>),
    Stmt("c.setStrokeColor", 1349, 1346, 1, << c_setStrokeColor("black") >>),
    Stmt("c.setLineWidth", 1350, 1346, 1, << c_setLineWidth(8) >>),
    Stmt("c.roundRect", 1351, 1346, 1, << c_roundRect(24 * mm, 36 * mm, 30 * mm, 16 * mm, 2 * mm, 1, 1) >>),
    Stmt("c.setFillColor", 1352, 1346, 1, << c_setFillColor("white") >>),
    Stmt("c.setFont", 1353, 1346, 1, << c_setFont("Helvetica-Bold", 80) >>),
    Stmt("c.drawCentredString", 1354, 1346, 1, << c_drawCentredString(39 * mm, 46 * mm, <<"1">>) >>),
    Stmt("c.setFont", 1355, 1346, 1, << c_setFont("Helvetica-Bold", 45) >>),
    Stmt("c.drawCentredString", 1358, 1357, 1, << c_drawCentredString(39 * mm, 41 * mm, <<"VESDA">>) >>),
    Stmt("c.drawCentredString", 1358, 1357, 2, << c_drawCentredString(39 * mm, 37 * mm, <<"ALERT">>) >>),
    Stmt("draw_arrow", 1361, 1346, 1, draw_arrow(54 * mm, 44 * mm, 59 * mm, 44 * mm, "black", 8)),
    Stmt("c.setFillColor", 1348, 1346, 2, << c_setFillColor("#eb984e") >>),
    Stmt("c.setStrokeColor", 1349, 1346, 2, << c_setStrokeColor("black") >>),
    Stmt("c.setLineWidth", 1350, 1346, 2, << c_setLineWidth(8) >>),
    Stmt("c.roundRect", 1351, 1346, 2, << c_roundRect(59 * mm, 36 * mm, 30 * mm, 16 * mm, 2 * mm, 1, 1) >>),
    Stmt("c.setFillColor", 1352, 1346, 2, << c_setFillColor("white") >>),
    Stmt("c.setFont", 1353, 1346, 2, << c_setFont("Helvetica-Bold", 80) >>),
    Stmt("c.drawCentredString", 1354, 1346, 2, << c_drawCentredString(74 * mm, 46 * mm, <<"2">>) >>),
    Stmt("c.setFont", 1355, 1346, 2, << c_setFont("Helvetica-Bold", 45) >>),
    Stmt("c.drawCentredString", 1358, 1357, 4, << c_drawCentredString(74 * mm, 41 * mm, <<"VESDA">>) >>),
    Stmt("c.drawCentredString", 1358, 1357, 5, << c_drawCentredString(74 * mm, 37 * mm, <<"ACTION">>) >>),
    Stmt("draw_arrow", 1361, 1346, 2, draw_arrow(89 * mm, 44 * mm, 94 * mm, 44 * mm, "black", 8)),
    Stmt("c.setFillColor", 1348, 1346, 3, << c_setFillColor(HexColor.C_COOL_SUPPLY) >>),
    Stmt("c.setStrokeColor", 1349, 1346, 3, << c_setStrokeColor("black") >>),
    Stmt("c.setLineWidth", 1350, 1346, 3, << c_setLineWidth(8) >>),
    Stmt("c.roundRect", 1351, 1346, 3, << c_roundRect(94 * mm, 36 * mm, 30 * mm, 16 * mm, 2 * mm, 1, 1) >>),
    Stmt("c.setFillColor", 1352, 1346, 3, << c_setFillColor("white") >>),
    Stmt("c.setFont", 1353, 1346, 3, << c_setFont("Helvetica-Bold", 80) >>),
    Stmt("c.drawCentredString", 1354, 1346, 3, << c_drawCentredString(109 * mm, 46 * mm, <<"3">>) >>),
    Stmt("c.setFont", 1355, 1346, 3, << c_setFont("Helvetica-Bold", 45) >>),
    Stmt("c.drawCentredString", 1358, 1357, 7, << c_drawCentredString(109 * mm, 41 * mm, <<"HVAC">>) >>),
    Stmt("c.drawCentredString", 1358, 1357, 8, << c_drawCentredString(109 * mm, 37 * mm, <<"SHUTDOWN">>) >>),
    Stmt("draw_arrow", 1361, 1346, 3, draw_arrow(124 * mm, 44 * mm, 129 * mm, 44 * mm, "black", 8)),
    Stmt("c.setFillColor", 1348, 1346, 4, << c_setFillColor("#e74c3c") >>),
    Stmt("c.setStrokeColor", 1349, 1346, 4, << c_setStrokeColor("black") >>),
    Stmt("c.setLineWidth", 1350, 1346, 4, << c_setLineWidth(8) >>),
    Stmt("c.roundRect", 1351, 1346, 4, << c_roundRect(129 * mm, 36 * mm, 30 * mm, 16 * mm, 2 * mm, 1, 1) >>),
    Stmt("c.setFillColor", 1352, 1346, 4, << c_setFillColor("white") >>),
    Stmt("c.setFont", 1353, 1346, 4, << c_setFont("Helvetica-Bold", 80) >>),
    Stmt("c.drawCentredString", 1354, 1346, 4, << c_drawCentredString(144 * mm, 46 * mm, <<"4">>) >>),
    Stmt("c.setFont", 1355, 1346, 4, << c_setFont("Helvetica-Bold", 45) >>),
    Stmt("c.drawCentredString", 1358, 1357, 10, << c_drawCentredString(144 * mm, 41 * mm, <<"PRE-">>) >>),
    Stmt("c.drawCentredString", 1358, 1357, 11, << c_drawCentredString(144 * mm, 37 * mm, <<"DISCHARGE">>) >>),
    Stmt("draw_arrow", 1361, 1346, 4, draw_arrow(159 * mm, 44 * mm, 164 * mm, 44 * mm, "black", 8)),
    Stmt("c.setFillColor", 1348, 1346, 5, << c_setFillColor(HexColor.C_FIRE) >>),
    Stmt("c.setStrokeColor", 1349, 1346, 5, << c_setStrokeColor("black") >>),
    Stmt("c.setLineWidth", 1350, 1346, 5, << c_setLineWidth(8) >>),
    Stmt("c.roundRect", 1351, 1346, 5, << c_roundRect(164 * mm, 36 * mm, 30 * mm, 16 * mm, 2 * mm, 1, 1) >>),
    Stmt("c.setFillColor", 1352, 1346, 5, << c_setFillColor("white") >>),
    Stmt("c.setFont", 1353, 1346, 5, << c_setFont("Helvetica-Bold", 80) >>),
    Stmt("c.drawCentredString", 1354, 1346, 5, << c_drawCentredString(179 * mm, 46 * mm, <<"5">>) >>),
    Stmt("c.setFont", 1355, 1346, 5, << c_setFont("Helvetica-Bold", 45) >>),
    Stmt("c.drawCentredString", 1358, 1357, 13, << c_drawCentredString(179 * mm, 41 * mm, <<"AGENT">>) >>),
    Stmt("c.drawCentredString", 1358, 1357, 14, << c_drawCentredString(179 * mm, 37 * mm, <<"DISCHARGE">>) >>),
    Stmt("draw_arrow", 1361, 1346, 5, draw_arrow(194 * mm, 44 * mm, 199 * mm, 44 * mm, "black", 8)),
    Stmt("c.setFillColor", 1348, 1346, 6, << c_setFillColor(HexColor.C_ELEC_A) >>),
    Stmt("c.setStrokeColor", 1349, 1346, 6, << c_setStrokeColor("black") >>),
    Stmt("c.setLineWidth", 1350, 1346, 6, << c_setLineWidth(8) >>),
    Stmt("c.roundRect", 1351, 1346, 6, << c_roundRect(199 * mm, 36 * mm, 30 * mm, 16 * mm, 2 * mm, 1, 1) >>),
    Stmt("c.setFillColor", 1352, 1346, 6, << c_setFillColor("white") >>),
    Stmt("c.setFont", 1353, 1346, 6, << c_setFont("Helvetica-Bold", 80) >>),
    Stmt("c.drawCentredString", 1354, 1346, 6, << c_drawCentredString(214 * mm, 46 * mm, <<"6">>) >>),
    Stmt("c.setFont", 1355, 1346, 6, << c_setFont("Helvetica-Bold", 45) >>),
    Stmt("c.drawCentredString", 1358, 1357, 16, << c_drawCentredString(214 * mm, 41 * mm, <<"EPO">>) >>),
    Stmt("c.drawCentredString", 1358, 1357, 17, << c_drawCentredString(214 * mm, 37 * mm, <<"(IF REQ)">>) >>),
    Stmt("draw_arrow", 1361, 1346, 6, draw_arrow(229 * mm, 44 * mm, 234 * mm, 44 * mm, "black", 8)),
    Stmt("c.setFillColor", 1348, 1346, 7, << c_setFillColor("#f39c12") >>),
    Stmt("c.setStrokeColor", 1349, 1346, 7, << c_setStrokeColor("black") >>),
    Stmt("c.setLineWidth", 1350, 1346, 7, << c_setLineWidth(8) >>),
    Stmt("c.roundRect", 1351, 1346, 7, << c_roundRect(234 * mm, 36 * mm, 30 * mm, 16 * mm, 2 * mm, 1, 1) >>),
    Stmt("c.setFillColor", 1352, 1346, 7, << c_setFillColor("white") >>),
    Stmt("c.setFont", 1353, 1346, 7, << c_setFont("Helvetica-Bold", 80) >>),
    Stmt("c.drawCentredString", 1354, 1346, 7, << c_drawCentredString(249 * mm, 46 * mm, <<"7">>) >>),
    Stmt("c.setFont", 1355, 1346, 7, << c_setFont("Helvetica-Bold", 45) >>),
    Stmt("c.drawCentredString", 1358, 1357, 19, << c_drawCentredString(249 * mm, 41 * mm, <<"NOTIFY">>) >>),
    Stmt("c.drawCentredString", 1358, 1357, 20, << c_drawCentredString(249 * mm, 37 * mm, <<"FIRE DEPT">>) >>),
    Stmt("c.setStrokeColor", 1367, 0, 0, << c_setStrokeColor("black") >>),
    Stmt("c.setFillColor", 1368, 0, 0, << c_setFillColor("white") >>),
    Stmt("c.setLineWidth", 1369, 0, 0, << c_setLineWidth(5) >>),
    Stmt("c.rect", 1370, 0, 0, << c_rect(233 * mm, 54 * mm, 48 * mm, 30 * mm, 1, 1) >>),
    Stmt("c.setFillColor", 1371, 0, 0, << c_setFillColor("black") >>),
    Stmt("c.setFont", 1372, 0, 0, << c_setFont("Helvetica-Bold", 60) >>),
    Stmt("c.drawString", 1373, 0, 0, << c_drawString(235 * mm, 79 * mm, <<"LEGEND">>) >>),
    Stmt("c.setLineWidth", 1374, 0, 0, << c_setLineWidth(3) >>),
    Stmt("c.line", 1375, 0, 0, << c_line(235 * mm, 78 * mm, 279 * mm, 78 * mm) >>),
    Stmt("draw_legend_item", 1377, 0, 0, draw_legend_item(235 * mm, 73 * mm, HexColor.C_FIRE, <<"Fire Alarm / Detection">>, "rect")),
    Stmt("draw_legend_item", 1378, 0, 0, draw_legend_item(235 * mm, 68 * mm, HexColor.C_LIGHT_RED, <<"VESDA Zone">>, "circle")),
    Stmt("draw_legend_item", 1379, 0, 0, draw_legend_item(235 * mm, 63 * mm, "#fdebd0", <<"Agent Storage">>, "rect")),
    Stmt("draw_legend_item", 1380, 0, 0, draw_legend_item(235 * mm, 58 * mm, HexColor.C_MECH, <<"BMS Integration">>, "rect")),
    Stmt("draw_legend_item", 1381, 0, 0, draw_legend_item(235 * mm, 53 * mm, HexColor.C_DASHED, <<"Control Signal">>, "dash"))
  >>

(* main(): out_dir = <script dir>/build/pdf *)
PdfOutDir == <<"build", "/", "pdf", "/">>

drawings_Mispaired ==
  << [filename |-> <<"SAT", "-", "DC", "-", "FP", "-", "001", "_", "Floor", "-", "Plan",
                     ".", "pdf">>, draw_fn |-> draw_floor_plan],
     [filename |-> <<"SAT", "-", "DC", "-", "EL", "-", "001", "_", "Electrical", "-", "SLD",
                     ".", "pdf">>, draw_fn |-> draw_electrical],
     [filename |-> <<"SAT", "-", "DC", "-", "NT", "-", "001", "_", "Network", "-", "Topology",
                     ".", "pdf">>, draw_fn |-> draw_cooling],
     [filename |-> <<"SAT", "-", "DC", "-", "CL", "-", "001", "_", "Cooling", "-", "System",
                     ".", "pdf">>, draw_fn |-> draw_network],
     [filename |-> <<"SAT", "-", "DC", "-", "FS", "-", "001", "_", "Fire", "-", "Suppression",
                     ".", "pdf">>, draw_fn |-> draw_fire] >>

(* main(): the list `drawings` of (filename, draw_fn) pairs *)
drawings ==
  << [filename |-> <<"SAT", "-", "DC", "-", "FP", "-", "001", "_", "Floor", "-", "Plan",
                     ".", "pdf">>, draw_fn |-> draw_floor_plan],
     [filename |-> <<"SAT", "-", "DC", "-", "EL", "-", "001", "_", "Electrical", "-", "SLD",
                     ".", "pdf">>, draw_fn |-> draw_electrical],
     [filename |-> <<"SAT", "-", "DC", "-", "NT", "-", "001", "_", "Network", "-", "Topology",
                     ".", "pdf">>, draw_fn |-> draw_network],
     [filename |-> <<"SAT", "-", "DC", "-", "CL", "-", "001", "_", "Cooling", "-", "System",
                     ".", "pdf">>, draw_fn |-> draw_cooling],
     [filename |-> <<"SAT", "-", "DC", "-", "FS", "-", "001", "_", "Fire", "-", "Suppression",
                     ".", "pdf">>, draw_fn |-> draw_fire] >>

----------------------------------------------------------------------------
(* The batch drivers: the __main__ block of generate_dxf.py and main() of    *)
(* generate_pdf.py.  One invocation is one run; sheet is the loop index.      *)

NoDoc == [fmt |-> "none"]

EmptyDisk == [p \in {} |-> NoDoc]

Digit(n) == <<"0", "1", "2", "3", "4", "5", "6", "7", "8", "9">>[n + 1]

NumSheets(f) == IF f = "dxf" THEN Len(DxfMain) ELSE Len(drawings)

Composer(f, i) == IF f = "dxf" THEN DxfMain[i].fn ELSE drawings[i].draw_fn

(* out = OUTPUT_DIR / "<name>.dxf";  filepath = os.path.join(out_dir, filename) *)
OutPath(f, i) ==
  IF f = "dxf" THEN DxfMain[i].fn.out ELSE PdfOutDir \o drawings[i].filename

(* print("[1/5] Floor Plan...");  print(f"[{i}/{len(drawings)}] {filename}...") *)
ProgressLine(f, i) ==
  IF f = "dxf"
  THEN DxfMain[i].label
  ELSE <<"[", Digit(i), "/", Digit(Len(drawings)), "] ">> \o drawings[i].filename \o <<"...">>

(* print(f"  {out}");  print(f"  (check mark) {filepath}") *)
ConfirmLine(f, i, path) == IF f = "dxf" THEN <<"  ">> \o path ELSE <<"  ", "ok ">> \o path

RECURSIVE RemovePdfExt(_)
(* filename.replace(".pdf", "") *)
RemovePdfExt(s) ==
  IF s = <<>> THEN <<>>
  ELSE IF Len(s) >= 2 /\ s[1] = "." /\ s[2] = "pdf"
       THEN RemovePdfExt(SubSeq(s, 3, Len(s)))
       ELSE <<s[1]>> \o RemovePdfExt(Tail(s))

(* .replace("_", " ") *)
UnderscoreToSpace(s) == [k \in 1..Len(s) |-> IF s[k] = "_" THEN " " ELSE s[k]]

SheetStages_SaveFirst(f) ==
  IF f = "dxf"
  THEN <<"progress", "create", "border", "title", "save", "body", "confirm">>
  ELSE <<"progress", "create", "info", "border", "title", "grid", "save", "body", "confirm">>

SheetStages_ConfirmEarly(f) ==
  IF f = "dxf"
  THEN <<"progress", "create", "border", "title", "body", "confirm", "save">>
  ELSE <<"progress", "create", "info", "border", "title", "grid", "body", "confirm", "save">>

SheetStages_TitleFirst(f) ==
  IF f = "dxf"
  THEN <<"progress", "create", "title", "border", "body", "save", "confirm">>
  ELSE <<"progress", "create", "info", "title", "border", "grid", "body", "save", "confirm">>

(* The statements run for one sheet, in program order: the print in the main  *)
(* block, then the composer (dxf: setup_doc .. saveas, print) or the loop     *)
(* body (pdf: Canvas, setTitle/Author/Subject, draw_fn, save, print).         *)
SheetStages(f) ==
  IF f = "dxf"
  THEN <<"progress", "create", "border", "title", "body", "save", "confirm">>
  ELSE <<"progress", "create", "info", "border", "title", "grid", "body", "save", "confirm">>

StageIndex(f, st) == CHOOSE k \in 1..Len(SheetStages(f)) : SheetStages(f)[k] = st

At(st) == [at |-> st, k |-> 0]

(* Control after the last statement of sheet i: next loop iteration or summary *)
AfterSheet(f, i) ==
  IF i < NumSheets(f)
  THEN [sheet |-> i + 1, pc |-> At(SheetStages(f)[1])]
  ELSE [sheet |-> i, pc |-> At("summary")]

(* Control after stage st of sheet i *)
Advance(f, i, st) ==
  LET k == StageIndex(f, st)
  IN IF k < Len(SheetStages(f))
     THEN [sheet |-> i, pc |-> At(SheetStages(f)[k + 1])]
     ELSE AfterSheet(f, i)

AfterError_Continue(f, i) == AfterSheet(f, i)

(* An exception in a composer or in save: neither driver has a try/except, *)
(* so it leaves the loop and ends the process.                              *)
AfterError(f, i) == [sheet |-> i, pc |-> At("aborted")]

Ev(e, i, line) == [line |-> line, i |-> i, ev |-> e]

File(data) == [data |-> data, complete |-> TRUE]

Truncated(data) == [data |-> data, complete |-> FALSE]

NewDoc_Reuse(f, old, path, now) ==
  IF f = "dxf" THEN setup_doc_Shared(old, now)
  ELSE IF old.fmt = "pdf" THEN old ELSE Canvas_new(path, now)

(* doc = setup_doc();  pdf = canvas.Canvas(filepath, pagesize=landscape(A4)) *)
NewDoc(f, old, path, now) ==
  IF f = "dxf" THEN setup_doc(old, now) ELSE Canvas_new(path, now)

PdfSection(c, sec) ==
  Emit(c, [sheet |-> sec.sheet, pts |-> <<>>, kind |-> "section", text |-> <<sec.name>>,
           fill |-> 0, stroke |-> 0, gs |-> c.gs, anchor |-> "", closed |-> FALSE])

ScratchCanvas == Canvas_new(<<"scratch", ".", "pdf">>, 0)

(* The toolkit harness: a DXF modelspace and a PDF canvas the helpers draw on, *)
(* the last helper call, both sheets as they were before it, how it returned.  *)
TkState(msp, canvas) ==
  [call |-> [fn |-> "none", args |-> <<>>], n |-> 0, msp |-> msp, canvas |-> canvas,
   before |-> [msp |-> msp, canvas |-> canvas], result |-> "none"]

TkIdle == TkState(<<>>, ScratchCanvas)

Init ==
  /\ fmt \in {"dxf", "pdf"}
  /\ run = 0
  /\ sheet = 0
  /\ pc = At("idle")
  /\ doc = NoDoc
  /\ disk = EmptyDisk
  /\ disk0 = EmptyDisk
  /\ events = <<>>
  /\ clock = 0
  /\ status = "none"
  /\ tk = TkIdle

(* Starting the program: output directory made, banner printed. The batch  *)
(* is started on an empty output directory or again after a completed run; *)
(* a run that died with a traceback ends the behaviour.                    *)
Invoke ==
  /\ pc.at \in {"idle", "done"}
  /\ run < MaxRuns
  /\ run' = run + 1
  /\ sheet' = 1
  /\ pc' = At(SheetStages(fmt)[1])
  /\ doc' = NoDoc
  /\ disk0' = disk
  /\ events' = <<Ev("header", 0, <<"=== Satsiber DC">>)>>
  /\ status' = "running"
  /\ UNCHANGED <<fmt, disk, clock, tk>>

Goto(ctl) == sheet' = ctl.sheet /\ pc' = ctl.pc

PrintProgress ==
  /\ pc.at = "progress"
  /\ events' = Append(events, Ev("progress", sheet, ProgressLine(fmt, sheet)))
  /\ Goto(Advance(fmt, sheet, "progress"))
  /\ UNCHANGED <<fmt, run, doc, disk, disk0, clock, status, tk>>

CreateDoc ==
  /\ pc.at = "create"
  /\ \E now \in clock..MaxClock :
       /\ clock' = now
       /\ doc' = NewDoc(fmt, doc, OutPath(fmt, sheet), now)
  /\ events' = Append(events, Ev("create", sheet, <<>>))
  /\ Goto(Advance(fmt, sheet, "create"))
  /\ UNCHANGED <<fmt, run, disk, disk0, status, tk>>

(* pdf.setTitle(...), pdf.setAuthor(...), pdf.setSubject(...) *)
SetInfo ==
  /\ pc.at = "info"
  /\ doc' = [doc EXCEPT
               !.title = UnderscoreToSpace(RemovePdfExt(drawings[sheet].filename)),
               !.author = "Satsiber Engineering",
               !.subject = "Uptime Tier III Design Certification"]
  /\ Goto(Advance(fmt, sheet, "info"))
  /\ UNCHANGED <<fmt, run, disk, disk0, events, clock, status, tk>>

DrawBorder ==
  /\ pc.at = "border"
  /\ doc' = IF fmt = "dxf"
            THEN msp_add(doc, add_border(Composer(fmt, sheet).W, Composer(fmt, sheet).H))
            ELSE RunProg(doc, Call("draw_border", draw_border))
  /\ Goto(Advance(fmt, sheet, "border"))
  /\ UNCHANGED <<fmt, run, disk, disk0, events, clock, status, tk>>

DrawTitleBlock ==
  /\ pc.at = "title"
  /\ LET f == Composer(fmt, sheet)
     IN doc' = IF fmt = "dxf"
               THEN msp_add(doc, add_title_block(f.dwg_no, f.title_line1, f.title_line2,
                                                 f.standard, f.x_off, f.y_off))
               ELSE RunProg(doc, Call("draw_title_block",
                                       draw_title_block(f.dwg_no, f.title, f.subtitle,
                                                        f.standard, <<"A">>, <<"NTS">>)))
  /\ Goto(Advance(fmt, sheet, "title"))
  /\ UNCHANGED <<fmt, run, disk, disk0, events, clock, status, tk>>

DrawGridRefs ==
  /\ pc.at = "grid"
  /\ doc' = RunProg(doc, Call("draw_grid_refs", draw_grid_refs))
  /\ Goto(Advance(fmt, sheet, "grid"))
  /\ UNCHANGED <<fmt, run, disk, disk0, events, clock, status, tk>>

(* The next stretch of the composer body *)
DrawSection ==
  /\ pc.at = "body"
  /\ LET body == Composer(fmt, sheet).body
         sec  == body[pc.k + 1]
     IN /\ doc' = IF fmt = "dxf" THEN msp_add(doc, <<sec>>) ELSE PdfSection(doc, sec)
        /\ IF pc.k + 1 < Len(body)
           THEN /\ pc' = [pc EXCEPT !.k = @ + 1]
                /\ UNCHANGED <<sheet, events>>
           ELSE /\ Goto(Advance(fmt, sheet, "body"))
                /\ events' = Append(events, Ev("composed", sheet, <<>>))
  /\ UNCHANGED <<fmt, run, disk, disk0, clock, status, tk>>

(* doc.saveas(out);  pdf.save() writes to the canvas's own filename *)
Save ==
  /\ pc.at = "save"
  /\ IF fmt = "dxf"
     THEN \E now \in clock..MaxClock :
            /\ clock' = now
            /\ disk' = (OutPath(fmt, sheet) :> File(dxf_export(doc, now))) @@ disk
            /\ events' = Append(events, Ev("save", sheet, OutPath(fmt, sheet)))
     ELSE /\ clock' = clock
          /\ disk' = (doc.filename :> File(doc)) @@ disk
          /\ events' = Append(events, Ev("save", sheet, doc.filename))
  /\ Goto(Advance(fmt, sheet, "save"))
  /\ UNCHANGED <<fmt, run, doc, disk0, status, tk>>

PrintPath ==
  /\ pc.at = "confirm"
  /\ events' = Append(events, Ev("confirm", sheet, ConfirmLine(fmt, sheet, OutPath(fmt, sheet))))
  /\ Goto(Advance(fmt, sheet, "confirm"))
  /\ UNCHANGED <<fmt, run, doc, disk, disk0, clock, status, tk>>

(* print("\nDone! All ... saved to: ...") and the closing hint line *)
Summary ==
  /\ pc.at = "summary"
  /\ events' = events \o <<Ev("summary", 0, <<"Done!">>), Ev("hint", 0, <<"Open with">>)>>
  /\ pc' = At("done")
  /\ status' = "ok"
  /\ UNCHANGED <<fmt, run, sheet, doc, disk, disk0, clock, tk>>

(* An exception raised by the statement about to run in the composer *)
Raise ==
  /\ pc.at \in {"create", "info", "border", "title", "grid", "body"}
  /\ events' = Append(events, Ev("error", sheet, <<pc.at>>))
  /\ Goto(AfterError(fmt, sheet))
  /\ status' = "error"
  /\ UNCHANGED <<fmt, run, doc, disk, disk0, clock, tk>>

(* An I/O error in saveas/save: before the file is opened, or part-way *)
SaveFail ==
  /\ pc.at = "save"
  /\ \/ disk' = disk
     \/ disk' = (OutPath(fmt, sheet) :> Truncated(doc)) @@ disk
  /\ events' = Append(events, Ev("error", sheet, <<pc.at>>))
  /\ Goto(AfterError(fmt, sheet))
  /\ status' = "error"
  /\ UNCHANGED <<fmt, run, doc, disk0, clock, tk>>

Next ==
  \/ Invoke
  \/ PrintProgress
  \/ CreateDoc
  \/ SetInfo
  \/ DrawBorder
  \/ DrawTitleBlock
  \/ DrawGridRefs
  \/ DrawSection
  \/ Save
  \/ PrintPath
  \/ Summary
  \/ Raise
  \/ SaveFail

Spec == Init /\ [][Next]_vars

----------------------------------------------------------------------------
(* The drawing helpers called on their own, with arguments from small sets.  *)
(* No helper of either file raises or returns a status: each call returns    *)
(* normally ("ok") after drawing.                                             *)

DxfCoords == {0, 30 * du}

DxfSizes == {-20 * du, 0, 35 * du, 40 * du}

DxfRadii == {-5 * du, 0, 8 * du, 12 * du}

PdfCoords == {10 * mm, 20 * mm}

PdfSizes == {-4 * mm, 0, 7 * mm, 11 * mm}

(* Arrow displacements: axis-parallel, 3-4-5 and 5-12-13 directions, and none *)
ArrowDeltas ==
  { <<0, 0>>, <<5 * mm, 0>>, <<-4 * mm, 0>>, <<0, 6 * mm>>, <<0, -8 * mm>>,
    <<3 * mm, 4 * mm>>, <<-4 * mm, 3 * mm>>, <<-8 * mm, -6 * mm>>, <<12 * mm, -5 * mm>> }

InitTk ==
  /\ fmt = "dxf"
  /\ run = 0
  /\ sheet = 0
  /\ pc = At("idle")
  /\ doc = NoDoc
  /\ disk = EmptyDisk
  /\ disk0 = EmptyDisk
  /\ events = <<>>
  /\ clock = 0
  /\ status = "none"
  /\ tk = TkIdle

DxfCall(fn, args, ents) ==
  /\ tk.n < MaxCalls
  /\ tk' = [tk EXCEPT !.msp = @ \o ents,
                      !.call = [fn |-> fn, args |-> args],
                      !.before = [msp |-> tk.msp, canvas |-> tk.canvas],
                      !.result = "ok",
                      !.n = @ + 1]
  /\ UNCHANGED batchVars

PdfCall(fn, args, prog) ==
  /\ tk.n < MaxCalls
  /\ tk' = [tk EXCEPT !.canvas = RunProg(@, Call(fn, prog)),
                      !.call = [fn |-> fn, args |-> args],
                      !.before = [msp |-> tk.msp, canvas |-> tk.canvas],
                      !.result = "ok",
                      !.n = @ + 1]
  /\ UNCHANGED batchVars

(* The sheet frame drawn first, as every composer does: the helpers are then *)
(* called on sheets that hold shapes and a changed graphics state.           *)
CallBorder ==
  /\ tk.n = 0
  /\ tk.msp = <<>>
  /\ tk' = TkState(add_border(1180 * du, 840 * du),
                 RunProg(tk.canvas, Call("draw_border", draw_border)))
  /\ UNCHANGED batchVars

CallAddRoomBox ==
  \E x \in DxfCoords, y \in DxfCoords, w \in DxfSizes, h \in DxfSizes :
    DxfCall("add_room_box", <<x, y, w, h>>,
            add_room_box(x, y, w, h, <<"ROOM">>, <<"R-00">>, WHITE))

CallAddEquipment ==
  \E x \in DxfCoords, y \in DxfCoords, w \in DxfSizes, h \in DxfSizes, dashed \in BOOLEAN :
    DxfCall("add_equipment", <<x, y, w, h>>,
            add_equipment(x, y, w, h, <<"UNIT">>, <<"TAG">>, CYAN, dashed))

CallAddGeneratorSymbol ==
  \E cx \in DxfCoords, cy \in DxfCoords, radius \in DxfRadii :
    DxfCall("add_generator_symbol", <<cx, cy, radius>>,
            add_generator_symbol(cx, cy, radius, <<"GEN">>, <<"TAG">>, WHITE))

CallAddTransformerSymbol ==
  \E cx \in DxfCoords, cy \in DxfCoords, radius \in DxfRadii :
    DxfCall("add_transformer_symbol", <<cx, cy, radius>>,
            add_transformer_symbol(cx, cy, radius, <<"XFMR">>, WHITE))

CallAddBusBar ==
  \E x \in DxfCoords, y \in DxfCoords, horizontal \in BOOLEAN :
    DxfCall("add_bus_bar", <<x, y, 150 * du, horizontal>>,
            add_bus_bar(x, y, 150 * du, <<"BUS">>, WHITE, horizontal))

CallAddCbSymbol ==
  \E x \in DxfCoords, y \in DxfCoords :
    DxfCall("add_cb_symbol", <<x, y>>, add_cb_symbol(x, y, <<"CB">>, WHITE))

CallDrawRoom ==
  \E x \in PdfCoords, y \in PdfCoords, w \in PdfSizes, h \in PdfSizes,
     ref_id \in {<<>>, <<"R-00">>} :
    PdfCall("draw_room", <<x, y, w, h>>,
            draw_room(x, y, w, h, <<"ROOM">>, ref_id, HexColor.C_WALL_FILL, HexColor.C_WALL))

CallDrawRack ==
  \E x \in PdfCoords, y \in PdfCoords, w \in PdfSizes, h \in PdfSizes :
    PdfCall("draw_rack", <<x, y, w, h>>, draw_rack(x, y, w, h, <<"A01">>, HexColor.C_RACK_FILL))

CallDrawDashedRect ==
  \E x \in PdfCoords, y \in PdfCoords, w \in PdfSizes, h \in PdfSizes :
    PdfCall("draw_dashed_rect", <<x, y, w, h>>, draw_dashed_rect(x, y, w, h, HexColor.C_DASHED, 6))

CallDrawArrow ==
  \E x1 \in PdfCoords, y1 \in PdfCoords, d \in ArrowDeltas, color \in {"black", HexColor.C_HOT} :
    PdfCall("draw_arrow", <<x1, y1, x1 + d[1], y1 + d[2]>>,
            draw_arrow(x1, y1, x1 + d[1], y1 + d[2], color, 8))

NextTk ==
  \/ CallBorder
  \/ CallAddRoomBox
  \/ CallAddEquipment
  \/ CallAddGeneratorSymbol
  \/ CallAddTransformerSymbol
  \/ CallAddBusBar
  \/ CallAddCbSymbol
  \/ CallDrawRoom
  \/ CallDrawRack
  \/ CallDrawDashedRect
  \/ CallDrawArrow

SpecTk == InitTk /\ [][NextTk]_vars

----------------------------------------------------------------------------
(* The composers call by call: the five sheets of one format drawn in order,  *)
(* each on a new document, every call of a composer body one step.  Failures   *)
(* and the passing of time are left to the batch specification.                *)

(* The calls of the body of composer g *)
CallsOf(f, g) ==
  LET code == g.dwg_no[5]
  IN IF f = "dxf"
     THEN CASE code = "FP" -> generate_floor_plan_calls
            [] code = "EL" -> generate_electrical_calls
            [] code = "NT" -> generate_network_calls
            [] code = "CL" -> generate_cooling_calls
            [] code = "FS" -> generate_fire_calls
     ELSE CASE code = "FP" -> draw_floor_plan_calls
            [] code = "EL" -> draw_electrical_calls
            [] code = "NT" -> draw_network_calls
            [] code = "CL" -> draw_cooling_calls
            [] code = "FS" -> draw_fire_calls

(* The methods of the canvas a composer calls itself; every other call of a   *)
(* PDF composer body is a call of a helper function.                           *)
CanvasMethods ==
  {"c.setFillColor", "c.setStrokeColor", "c.setLineWidth", "c.setFont", "c.setDash",
   "c.rect", "c.roundRect", "c.circle", "c.line", "c.drawString", "c.drawCentredString",
   "c.drawRightString", "c.drawPath", "c.saveState", "c.restoreState", "c.translate",
   "c.rotate"}

(* The document after call st of a composer body *)
DoCall(d, st) ==
  IF d.fmt = "dxf"
  THEN msp_add(d, st.out)
  ELSE RunProg(d, IF st.fn \notin CanvasMethods THEN Call(st.fn, st.out) ELSE st.out)

(* doc = setup_doc();  pdf = canvas.Canvas(filepath, ...): the clock stands *)
OpenSheet ==
  /\ pc.at = "create"
  /\ doc' = NewDoc(fmt, doc, OutPath(fmt, sheet), clock)
  /\ Goto(Advance(fmt, sheet, "create"))
  /\ UNCHANGED <<fmt, run, disk, disk0, events, clock, status, tk>>

(* The next call of the composer body *)
DrawCall ==
  /\ pc.at = "body"
  /\ LET body == CallsOf(fmt, Composer(fmt, sheet))
     IN /\ doc' = DoCall(doc, body[pc.k + 1])
        /\ IF pc.k + 1 < Len(body)
           THEN pc' = [pc EXCEPT !.k = @ + 1] /\ UNCHANGED sheet
           ELSE Goto(Advance(fmt, sheet, "body"))
  /\ UNCHANGED <<fmt, run, disk, disk0, events, clock, status, tk>>

(* The sheet is complete; the composer or loop body goes on to save and to   *)
(* print, and the driver to the next sheet.                                  *)
CloseSheet ==
  /\ pc.at = "save"
  /\ disk' = (OutPath(fmt, sheet) :>
                File(IF fmt = "dxf" THEN dxf_export(doc, clock) ELSE doc)) @@ disk
  /\ events' = events \o <<Ev("save", sheet, OutPath(fmt, sheet)),
                            Ev("confirm", sheet, ConfirmLine(fmt, sheet, OutPath(fmt, sheet)))>>
  /\ Goto(AfterSheet(fmt, sheet))
  /\ UNCHANGED <<fmt, run, doc, disk0, clock, status, tk>>

NextSheet ==
  \/ Invoke
  \/ PrintProgress
  \/ OpenSheet
  \/ SetInfo
  \/ DrawBorder
  \/ DrawTitleBlock
  \/ DrawGridRefs
  \/ DrawCall
  \/ CloseSheet

SpecSheet == Init /\ [][NextSheet]_vars

----------------------------------------------------------------------------
(* Properties of the batch drivers *)

EventsOf(kind) == SelectSeq(events, LAMBDA e : e.ev = kind)

SavedPaths == [k \in 1..Len(EventsOf("save")) |-> EventsOf("save")[k].line]

SheetNames ==
  << <<"SAT", "-", "DC", "-", "FP", "-", "001", "_", "Floor", "-", "Plan">>,
     <<"SAT", "-", "DC", "-", "EL", "-", "001", "_", "Electrical", "-", "SLD">>,
     <<"SAT", "-", "DC", "-", "NT", "-", "001", "_", "Network", "-", "Topology">>,
     <<"SAT", "-", "DC", "-", "CL", "-", "001", "_", "Cooling", "-", "System">>,
     <<"SAT", "-", "DC", "-", "FS", "-", "001", "_", "Fire", "-", "Suppression">> >>

ExpectedPath(k) == <<"build", "/", fmt, "/">> \o SheetNames[k] \o <<".", fmt>>

(* C1: a run that completes has written exactly five files, each once and   *)
(* complete, in the order Floor-Plan, Electrical-SLD, Network-Topology,      *)
(* Cooling-System, Fire-Suppression, with the extension of the format.       *)
C1_FiveFilesInOrder ==
  pc.at = "done" =>
    /\ SavedPaths = [k \in 1..5 |-> ExpectedPath(k)]
    /\ \A k \in 1..5 : /\ ExpectedPath(k) \in DOMAIN disk
                       /\ disk[ExpectedPath(k)].complete

C1_Witness == pc.at = "done" /\ status = "ok" /\ Len(SavedPaths) = 5

(* C2: an error while composing or saving sheet k ends the batch: the error  *)
(* is the last effect of the run, nothing of a later sheet precedes it, the  *)
(* summary line is not printed and the process is over.                      *)
C2_ErrorStopsBatch ==
  \A j \in 1..Len(events) :
    events[j].ev = "error" =>
      /\ j = Len(events)
      /\ pc.at = "aborted"
      /\ status = "error"
      /\ \A m \in 1..Len(events) :
           /\ events[m].i <= events[j].i
           /\ events[m].ev # "summary"

C2_Witness ==
  /\ pc.at = "aborted"
  /\ sheet = 3
  /\ events[Len(events)].ev = "error"
  /\ Len(SavedPaths) = 2

ComposerStages == {"create", "info", "border", "title", "grid", "body"}

ComposerRaised ==
  /\ pc.at = "aborted"
  /\ events[Len(events)].ev = "error"
  /\ events[Len(events)].line[1] \in ComposerStages

(* C3: when the composer of sheet k raises before its last shape, no file    *)
(* for sheet k is written in this run (its path holds what it held when the  *)
(* run began) and the files of sheets 1..k-1 are on disk, complete.          *)
C3_NoPartialSheet ==
  ComposerRaised =>
    LET k == sheet
        p == OutPath(fmt, k)
    IN /\ \A j \in 1..Len(events) :
            events[j].ev = "save" => events[j].i < k
       /\ (p \in DOMAIN disk) = (p \in DOMAIN disk0)
       /\ p \in DOMAIN disk => disk[p] = disk0[p]
       /\ \A j \in 1..(k - 1) :
            /\ OutPath(fmt, j) \in DOMAIN disk
            /\ disk[OutPath(fmt, j)].complete

C3_Witness ==
  /\ ComposerRaised
  /\ events[Len(events)].line = <<"body">>
  /\ sheet = 2
  /\ run = 1

Ordered == {"progress", "create", "composed", "save", "confirm", "summary"}

Trace == SelectSeq(events, LAMBDA e : e.ev \in Ordered)

CanonKinds == <<"progress", "create", "composed", "save", "confirm">>

(* The j-th effect of a run without error: five per sheet, then the summary *)
Canon(j) ==
  IF j <= 25
  THEN [i |-> ((j - 1) \div 5) + 1, ev |-> CanonKinds[((j - 1) % 5) + 1]]
  ELSE [i |-> 0, ev |-> "summary"]

(* C4: per sheet the effects come in the order progress line, document      *)
(* created, composer finished, document saved, confirmation line; sheet i+1 *)
(* starts after the confirmation of sheet i; never two unsaved documents;   *)
(* the summary comes after the fifth confirmation.                          *)
C4_SheetEventOrder ==
  /\ Len(Trace) <= 26
  /\ \A j \in 1..Len(Trace) :
       /\ Trace[j].ev = Canon(j).ev
       /\ Trace[j].i = Canon(j).i
  /\ Len(EventsOf("create")) - Len(EventsOf("save")) \in {0, 1}
  /\ \A j \in 1..Len(events) :
       events[j].ev = "confirm" => events[j].line = ConfirmLine(fmt, events[j].i, ExpectedPath(events[j].i))

C4_Witness == pc.at = "progress" /\ sheet = 4 /\ Len(EventsOf("confirm")) = 3

StripTime(d) ==
  IF d.fmt = "dxf" THEN [d EXCEPT !.tdcreate = 0, !.tdupdate = 0]
  ELSE [d EXCEPT !.created = 0]

RECURSIVE AddSections(_, _)
AddSections(c, secs) ==
  IF secs = <<>> THEN c ELSE AddSections(PdfSection(c, Head(secs)), Tail(secs))

(* Sheet j of format f drawn from nothing: a new document, the frame, the body *)
FreshSheet(f, j) ==
  LET g == Composer(f, j)
  IN IF f = "dxf"
     THEN msp_add(setup_doc(NoDoc, 0),
                  add_border(g.W, g.H)
                  \o add_title_block(g.dwg_no, g.title_line1, g.title_line2, g.standard,
                                     g.x_off, g.y_off)
                  \o g.body)
     ELSE LET c0 == [Canvas_new(OutPath(f, j), 0) EXCEPT
                       !.title = UnderscoreToSpace(RemovePdfExt(drawings[j].filename)),
                       !.author = "Satsiber Engineering",
                       !.subject = "Uptime Tier III Design Certification"]
              c1 == RunProg(c0, Call("draw_border", draw_border))
              c2 == RunProg(c1, Call("draw_title_block",
                                     draw_title_block(g.dwg_no, g.title, g.subtitle,
                                                      g.standard, <<"A">>, <<"NTS">>)))
              c3 == RunProg(c2, Call("draw_grid_refs", draw_grid_refs))
          IN AddSections(c3, g.body)

Shapes(d) == IF d.fmt = "dxf" THEN d.entities ELSE d.ops

SheetCode(f, j) == Composer(f, j).dwg_no[5]

(* C5: every complete file holds exactly what its composer draws on a new   *)
(* document (shapes, styles, linetypes, graphics state), whatever was drawn *)
(* for the other sheets; the document being composed or saved holds body    *)
(* shapes of the current sheet only.                                         *)
C5_FreshDocumentPerSheet ==
  /\ \A j \in 1..NumSheets(fmt) :
       LET p == OutPath(fmt, j)
       IN (p \in DOMAIN disk /\ disk[p].complete) =>
            StripTime(disk[p].data) = StripTime(FreshSheet(fmt, j))
  /\ pc.at \in {"info", "border", "title", "grid", "body", "save", "confirm"} =>
       \A k \in 1..Len(Shapes(doc)) :
         Shapes(doc)[k].kind \in {"SECTION", "section"} =>
           Shapes(doc)[k].sheet = SheetCode(fmt, sheet)

C5_Witness ==
  /\ pc.at = "body"
  /\ pc.k = 2
  /\ sheet = 3
  /\ OutPath(fmt, 2) \in DOMAIN disk

RECURSIVE UpTo(_, _)
(* The tokens of s before the first token t *)
UpTo(s, t) ==
  IF s = <<>> \/ Head(s) = t THEN <<>> ELSE <<Head(s)>> \o UpTo(Tail(s), t)

RECURSIVE Basename(_)
Basename(path) ==
  IF \E k \in 1..Len(path) : path[k] = "/"
  THEN Basename(Tail(path))
  ELSE path

Contains(s, t) ==
  \E k \in 0..(Len(s) - Len(t)) : SubSeq(s, k + 1, k + Len(t)) = t

IsText(e) == e.kind \in {"TEXT", "string"}

(* C6: in every complete file the drawing-number prefix of the file name    *)
(* (the part before "_") occurs in exactly one text of the sheet, and that   *)
(* text is the drawing-number cell of the title block ("DWG NO: <no>" in     *)
(* DXF, "<no>" under the DWG NO. caption in PDF).                            *)
C6_DrawingNumberMatchesFile ==
  \A p \in DOMAIN disk :
    disk[p].complete =>
      LET no   == UpTo(Basename(p), "_")
          shp  == Shapes(disk[p].data)
          hits == {k \in 1..Len(shp) : IsText(shp[k]) /\ Contains(shp[k].text, no)}
      IN /\ Len(no) = 7
         /\ Cardinality(hits) = 1
         /\ \A k \in hits :
              IF fmt = "dxf"
              THEN /\ shp[k].text = <<"DWG NO: ">> \o no
                   /\ shp[k].pts[1] = Pt(600 * du + 210 * du, 10 * du + 75 * du)
              ELSE /\ shp[k].text = no
                   /\ shp[k].pts[1] = Pt(BORDER + 4 * mm, BORDER + 2 * mm)

C6_Witness ==
  /\ Cardinality(DOMAIN disk) = 5
  /\ \A p \in DOMAIN disk : disk[p].complete
  /\ pc.at = "summary"

FirstRunComplete ==
  /\ Cardinality(DOMAIN disk0) = 5
  /\ \A p \in DOMAIN disk0 : disk0[p].complete

(* C7: a second complete run leaves every output file exactly as the first  *)
(* complete run wrote it.                                                    *)
C7_RerunIdentical ==
  (run = 2 /\ pc.at = "done" /\ FirstRunComplete) =>
    /\ DOMAIN disk = DOMAIN disk0
    /\ \A p \in DOMAIN disk : disk[p] = disk0[p]

----------------------------------------------------------------------------
(* Properties of the drawing helpers *)

NewEntities == SubSeq(tk.msp, Len(tk.before.msp) + 1, Len(tk.msp))

NewOps == SubSeq(tk.canvas.ops, Len(tk.before.canvas.ops) + 1, Len(tk.canvas.ops))

SizedHelpers ==
  {"add_room_box", "add_equipment", "draw_room", "draw_rack", "draw_dashed_rect"}

RadiusHelpers == {"add_generator_symbol", "add_transformer_symbol"}

Malformed(call) ==
  \/ call.fn \in SizedHelpers /\ (call.args[3] <= 0 \/ call.args[4] <= 0)
  \/ call.fn \in RadiusHelpers /\ call.args[3] <= 0

(* C8: a helper called with w <= 0, h <= 0 or radius <= 0 fails with a      *)
(* validation error and leaves both sheets without a new shape.             *)
C8_RejectsMalformedSize ==
  Malformed(tk.call) =>
    /\ tk.result = "ValidationError"
    /\ NewEntities = <<>>
    /\ NewOps = <<>>

Min(S) == CHOOSE m \in S : \A n \in S : m <= n

Max(S) == CHOOSE m \in S : \A n \in S : m >= n

(* Bounding box <<x, y, w, h>> of a point list *)
BBox(pts) ==
  LET xs == {pts[k][1] : k \in 1..Len(pts)}
      ys == {pts[k][2] : k \in 1..Len(pts)}
  IN <<Min(xs), Min(ys), Max(xs) - Min(xs), Max(ys) - Min(ys)>>

(* C9: for w > 0 and h > 0 the labelled-box helpers add one polyline of     *)
(* five points, closed on its first point, through (x,y), (x+w,y),          *)
(* (x+w,y+h), (x,y+h), with bounding box (x, y, w, h).                      *)
C9_BoxIsClosedRectangle ==
  (tk.call.fn \in {"add_room_box", "add_equipment"}
     /\ tk.call.args[3] > 0 /\ tk.call.args[4] > 0) =>
    LET x == tk.call.args[1]
        y == tk.call.args[2]
        w == tk.call.args[3]
        h == tk.call.args[4]
        polys == {k \in 1..Len(NewEntities) : NewEntities[k].kind = "LWPOLYLINE"}
    IN /\ polys = {1}
       /\ Len(NewEntities[1].pts) = 5
       /\ NewEntities[1].pts[1] = NewEntities[1].pts[5]
       /\ SubSeq(NewEntities[1].pts, 1, 4)
            = <<Pt(x, y), Pt(x + w, y), Pt(x + w, y + h), Pt(x, y + h)>>
       /\ BBox(NewEntities[1].pts) = <<x, y, w, h>>

C9_Witness ==
  /\ tk.call.fn = "add_equipment"
  /\ tk.call.args = <<30 * du, 0, 35 * du, 40 * du>>
  /\ Len(NewEntities) = 3

(* v lies at distance 3 mm from the apex, turned by side * 0.3 rad from the *)
(* direction that points from (x2,y2) back to (x1,y1), within 3 units of    *)
(* 1/720 mm (coordinates are rounded to the unit)                            *)
HeadVertexOk(v, apex, a, side) ==
  LET vx    == v[1] - apex[1]
      vy    == v[2] - apex[2]
      alen  == 3 * mm
      dot   == vx * a.c + vy * a.s
      cross == a.c * vy - a.s * vx
  IN /\ Abs(vx * vx + vy * vy - alen * alen) <= 2 * 3 * alen
     /\ Abs(dot * TrigScale + alen * Cos03 * a.l) <= 3 * a.l * TrigScale
     /\ Abs(cross * TrigScale - side * alen * Sin03 * a.l) <= 3 * a.l * TrigScale

(* C10: draw_arrow adds the line (x1,y1)-(x2,y2) and then one filled closed *)
(* triangle with apex (x2,y2) whose other two vertices are 3 mm from the    *)
(* apex at theta - 0.3 and theta + 0.3 back along the line.                 *)
C10_ArrowHead ==
  tk.call.fn = "draw_arrow" =>
    LET x1 == tk.call.args[1]
        y1 == tk.call.args[2]
        x2 == tk.call.args[3]
        y2 == tk.call.args[4]
        theta == atan2(y2 - y1, x2 - x1)
    IN /\ Len(NewOps) = 2
       /\ NewOps[1].kind = "line"
       /\ NewOps[1].pts = <<Pt(x1, y1), Pt(x2, y2)>>
       /\ NewOps[2].kind = "path"
       /\ NewOps[2].closed
       /\ NewOps[2].fill = 1
       /\ Len(NewOps[2].pts) = 3
       /\ NewOps[2].pts[1] = Pt(x2, y2)
       /\ HeadVertexOk(NewOps[2].pts[2], Pt(x2, y2), theta, 1)
       /\ HeadVertexOk(NewOps[2].pts[3], Pt(x2, y2), theta, -1)

C10_Witness ==
  /\ tk.call.fn = "draw_arrow"
  /\ tk.call.args[3] - tk.call.args[1] = 3 * mm
  /\ tk.call.args[4] - tk.call.args[2] = 4 * mm
  /\ Len(NewOps) = 2

----------------------------------------------------------------------------
(* Properties of the composed sheets *)

(* Every call of the composer body is made: the sheet is about to be saved *)
SheetComplete == pc.at = "save"

SheetCalls == CallsOf(fmt, Composer(fmt, sheet))

(* The number of items the composer of the current sheet builds its legend   *)
(* from: the length of its list (DXF), its calls of draw_legend_item (PDF)   *)
LegendSize ==
  IF fmt = "dxf"
  THEN CASE SheetCode(fmt, sheet) = "FP" -> Len(generate_floor_plan_legend_items)
         [] SheetCode(fmt, sheet) = "NT" -> Len(generate_network_legend_items)
         [] SheetCode(fmt, sheet) = "CL" -> Len(generate_cooling_legend_items)
         [] SheetCode(fmt, sheet) = "FS" -> Len(generate_fire_legend_items)
         [] OTHER -> 0
  ELSE Cardinality({k \in 1..Len(SheetCalls) : SheetCalls[k].fn = "draw_legend_item"})

IsLegendHeading(e) == IsText(e) /\ e.text # <<>> /\ e.text[1] = "LEGEND"

(* The entries of the legend on the sheet, top first, each a swatch and a    *)
(* label.  DXF: the polyline/text pairs that follow the LEGEND heading (and  *)
(* its underline); PDF: the shapes drawn by draw_legend_item, two by two.    *)
LegendPairs ==
  IF fmt = "dxf"
  THEN LET ents == doc.entities
       IN IF ~\E h \in 1..Len(ents) : IsLegendHeading(ents[h])
          THEN <<>>
          ELSE LET h == CHOOSE i \in 1..Len(ents) : IsLegendHeading(ents[i])
                   s == IF h < Len(ents) /\ ents[h + 1].kind = "LINE" THEN h + 2 ELSE h + 1
                   IsPair(j) == /\ s + 2 * j + 1 <= Len(ents)
                                /\ ents[s + 2 * j].kind = "LWPOLYLINE"
                                /\ ents[s + 2 * j + 1].kind = "TEXT"
                   n == Max({m \in 0..Len(ents) : \A j \in 0..(m - 1) : IsPair(j)})
               IN [k \in 1..n |-> [sw |-> ents[s + 2 * (k - 1)],
                                   lab |-> ents[s + 2 * (k - 1) + 1]]]
  ELSE LET sel == SelectSeq(doc.ops, LAMBDA o : o.kind # "section" /\ o.by = "draw_legend_item")
       IN [k \in 1..((Len(sel) + 1) \div 2) |->
             [sw |-> sel[2 * k - 1],
              lab |-> IF 2 * k <= Len(sel) THEN sel[2 * k] ELSE sel[2 * k - 1]]]

SwatchHeight(s) == IF s.kind = "circle" THEN 2 * s.r ELSE BBox(s.pts)[4]

(* C11: on every complete sheet the legend has as many entries as the        *)
(* composer has legend items, each a swatch followed by its label; the       *)
(* labels step down the page by one constant spacing, and that spacing is    *)
(* larger than the height of every swatch.                                   *)
C11_LegendEntriesStacked ==
  SheetComplete =>
    LET P == LegendPairs
        N == LegendSize
        y(k) == P[k].lab.pts[1][2]
    IN /\ Len(P) = N
       /\ \A k \in 1..Len(P) : ~IsText(P[k].sw) /\ IsText(P[k].lab)
       /\ \A k \in 1..(Len(P) - 1) :
            /\ y(k) > y(k + 1)
            /\ y(k) - y(k + 1) = y(1) - y(2)
       /\ \A k \in 1..Len(P) : Len(P) > 1 => y(1) - y(2) > SwatchHeight(P[k].sw)

C11_Witness ==
  /\ SheetComplete
  /\ fmt = "dxf"
  /\ SheetCode(fmt, sheet) = "NT"
  /\ Len(LegendPairs) = 8

(* The attributes of the graphics state that decide how shape o looks *)
StyleAttrs(o) ==
  (IF o.stroke = 1 THEN {"stroke", "lw", "dash"} ELSE {})
    \cup (IF o.fill = 1 THEN {"fill"} ELSE {})
    \cup (IF o.kind = "string" THEN {"font"} ELSE {})

(* C13: a call of a symbol function leaves the sheet as it was but for the   *)
(* shapes it appends (earlier shapes, graphics state and transformation      *)
(* unchanged), and the style of every shape it appends is set by the call    *)
(* itself, so that it is the same whatever the state before the call.        *)
C13_SymbolCallsArePure ==
  tk.call.fn # "none" =>
    /\ SubSeq(tk.msp, 1, Len(tk.before.msp)) = tk.before.msp
    /\ SubSeq(tk.canvas.ops, 1, Len(tk.before.canvas.ops)) = tk.before.canvas.ops
    /\ tk.canvas.gs = tk.before.canvas.gs
    /\ tk.canvas.ctm = tk.before.canvas.ctm
    /\ tk.canvas.saved = tk.before.canvas.saved
    /\ \A k \in 1..Len(NewOps) :
         \A a \in StyleAttrs(NewOps[k]) : NewOps[k].src[a] = tk.call.fn

(* C14: the stroke colour and the line width of every line on a PDF sheet    *)
(* are set by the function that draws the line (the composer for its own     *)
(* lines, the helper for a helper's lines), never left over from a helper    *)
(* that ran before it.                                                       *)
C14_LineStyleSetByItsDrawer ==
  doc.fmt = "pdf" =>
    \A k \in 1..Len(doc.ops) :
      doc.ops[k].kind = "line" =>
        /\ doc.ops[k].src.stroke = doc.ops[k].by
        /\ doc.ops[k].src.lw = doc.ops[k].by

(* The line weight a shape is stroked with: the lineweight attribute of a    *)
(* DXF entity, the line width of the graphics state of a PDF shape           *)
StrokeWeight(e) == IF e.kind \in {"LWPOLYLINE", "LINE", "CIRCLE"} THEN e.lw ELSE e.gs.lw

(* C15: on every complete sheet of either format the first two shapes are    *)
(* the border: two rectangles, the second inside the first, at insets from   *)
(* the page edge that are the same on all five sheets, and the outer one is  *)
(* stroked with a strictly heavier line weight than the inner one.           *)
C15_BorderOuterHeavier ==
  SheetComplete =>
    LET outer == Shapes(doc)[1]
        inner == Shapes(doc)[2]
    IN /\ outer.kind \in {"LWPOLYLINE", "rect"}
       /\ inner.kind = outer.kind
       /\ BBox(outer.pts) = IF fmt = "dxf"
                            THEN <<0, 0, 1180 * du, 840 * du>>
                            ELSE <<MARGIN, MARGIN, PAGE_W - 2 * MARGIN, PAGE_H - 2 * MARGIN>>
       /\ BBox(inner.pts) = IF fmt = "dxf"
                            THEN <<5 * du, 5 * du, 1170 * du, 830 * du>>
                            ELSE <<BORDER, BORDER, PAGE_W - 2 * BORDER, PAGE_H - 2 * BORDER>>
       /\ StrokeWeight(outer) > StrokeWeight(inner)

(* The shapes of the title block in a saved sheet: the 22 entities that      *)
(* add_title_block adds after the two of the border (DXF), the shapes drawn  *)
(* by draw_title_block (PDF)                                                 *)
TitleShapes(d) ==
  IF d.fmt = "dxf"
  THEN SubSeq(d.entities, 3, 24)
  ELSE SelectSeq(d.ops, LAMBDA o : o.by = "draw_title_block")

(* A shape without its string: position, size, anchor, height, font, style *)
Geometry(o) == [f \in (DOMAIN o) \ {"text"} |-> o[f]]

TextOf(o) == IF IsText(o) THEN o.text ELSE <<>>

(* The four strings a composer passes to the title block *)
TitleStrings(f) ==
  IF fmt = "dxf"
  THEN {f.dwg_no, f.title_line1, f.title_line2, f.standard}
  ELSE {f.dwg_no, f.title, f.subtitle, f.standard}

SheetOfPath(p) == CHOOSE i \in 1..NumSheets(fmt) : OutPath(fmt, i) = p

(* C16: the title blocks of any two saved sheets of a run have the same      *)
(* shapes at the same places with the same heights, fonts and styles; a cell  *)
(* whose text differs between them holds the drawing number, title, subtitle *)
(* or standard passed by the sheet's composer.                               *)
C16_TitleBlockSameOnAllSheets ==
  \A p \in DOMAIN disk, q \in DOMAIN disk :
    LET a == TitleShapes(disk[p].data)
        b == TitleShapes(disk[q].data)
    IN /\ Len(a) = Len(b)
       /\ Len(a) > 0
       /\ \A k \in 1..Len(a) :
            /\ Geometry(a[k]) = Geometry(b[k])
            /\ TextOf(a[k]) # TextOf(b[k]) =>
                 \E s \in TitleStrings(Composer(fmt, SheetOfPath(p))) :
                   /\ Len(s) <= Len(TextOf(a[k]))
                   /\ SubSeq(TextOf(a[k]), Len(TextOf(a[k])) - Len(s) + 1, Len(TextOf(a[k]))) = s

C16_Witness ==
  /\ Cardinality(DOMAIN disk) = 5
  /\ \E p \in DOMAIN disk, q \in DOMAIN disk :
       \E k \in 1..Len(TitleShapes(disk[p].data)) :
         TextOf(TitleShapes(disk[p].data)[k]) # TextOf(TitleShapes(disk[q].data)[k])

(* How often name occurs in a table of the document *)
Registered(table, name) == Cardinality({k \in 1..Len(table) : table[k] = name})

(* C17: a DXF document holds each of the linetypes DASHED and DASHDOT and     *)
(* each of the text styles TITLE and NOTES exactly once from the moment it   *)
(* exists, so before its first entity; every linetype an entity names        *)
(* (other than the BYLAYER default) is DASHED or DASHDOT, every text style a *)
(* text names (other than the Standard default) is TITLE or NOTES, and the   *)
(* name is in the document's table.                                          *)
C17_StylesRegisteredBeforeUse ==
  doc.fmt = "dxf" =>
    /\ \A n \in {"DASHED", "DASHDOT"} : Registered(doc.linetypes, n) = 1
    /\ \A n \in {"TITLE", "NOTES"} : Registered(doc.styles, n) = 1
    /\ \A k \in 1..Len(doc.entities) :
         LET e == doc.entities[k]
         IN /\ ("lt" \in DOMAIN e /\ e.lt # "BYLAYER") =>
                 e.lt \in {"DASHED", "DASHDOT"} /\ Registered(doc.linetypes, e.lt) = 1
            /\ (IsText(e) /\ e.style # "Standard") =>
                 e.style \in {"TITLE", "NOTES"} /\ Registered(doc.styles, e.style) = 1

C17_Witness ==
  /\ doc.fmt = "dxf"
  /\ \E k \in 1..Len(doc.entities) :
       "lt" \in DOMAIN doc.entities[k] /\ doc.entities[k].lt = "DASHDOT"
  /\ \E k \in 1..Len(doc.entities) :
       IsText(doc.entities[k]) /\ doc.entities[k].style = "TITLE"

(* The string names an N+1 spare *)
NamesSpare(text) == \E i \in 1..Len(text) : text[i] = "N+1"

(* A PDF shape with a stroked outline, and the box <<x, y, w, h>> around it *)
IsOutline(o) == o.kind \in {"rect", "roundRect", "circle"} /\ o.stroke = 1

OutlineBox(o) ==
  IF o.kind = "circle"
  THEN <<o.pts[1][1] - o.r, o.pts[1][2] - o.r, 2 * o.r, 2 * o.r>>
  ELSE BBox(o.pts)

(* C18: on every complete sheet a unit labelled N+1 has a dashed outline.    *)
(* DXF: the outline (polyline or circle) added by a call of a symbol helper   *)
(* whose label or tag names N+1 has linetype DASHED.  PDF: the outlined       *)
(* shape that a centred label naming N+1 sits in (the last outline its       *)
(* drawer stroked before the label) is stroked with a dash pattern.          *)
C18_SparesAreDashed ==
  SheetComplete =>
    IF fmt = "dxf"
    THEN \A k \in 1..Len(SheetCalls) :
           LET st == SheetCalls[k]
           IN (/\ st.fn \notin {"msp.add_lwpolyline", "msp.add_line", "msp.add_circle",
                               "msp.add_text"}
               /\ \E i \in 1..Len(st.out) : IsText(st.out[i]) /\ NamesSpare(st.out[i].text))
              => \A i \in 1..Len(st.out) :
                   st.out[i].kind \in {"LWPOLYLINE", "CIRCLE"} => st.out[i].lt = "DASHED"
    ELSE \A k \in 1..Len(doc.ops) :
           LET o == doc.ops[k]
               P == {j \in 1..(k - 1) : IsOutline(doc.ops[j])}
           IN (/\ o.kind = "string"
               /\ o.anchor = "centre"
               /\ NamesSpare(o.text)
               /\ P # {}
               /\ doc.ops[Max(P)].by = o.by
               /\ LET b == OutlineBox(doc.ops[Max(P)])
                  IN /\ b[1] <= o.pts[1][1] /\ o.pts[1][1] <= b[1] + b[3]
                     /\ b[2] <= o.pts[1][2] /\ o.pts[1][2] <= b[2] + b[4])
              => doc.ops[Max(P)].gs.dash # <<>>

(* C19: a call of add_bus_bar, horizontal or vertical, adds exactly one      *)
(* two-point line of weight 70 from (x, y), `length` long in the direction   *)
(* asked for, and exactly one label, centred on the middle of the bar; on a  *)
(* complete DXF sheet every bar added by add_bus_bar is heavier than every   *)
(* line added by msp.add_line.                                               *)
C19_BusBarLineAndLabel ==
  /\ tk.call.fn = "add_bus_bar" =>
       LET x == tk.call.args[1]
           y == tk.call.args[2]
           length == tk.call.args[3]
           horizontal == tk.call.args[4]
           bars == {k \in 1..Len(NewEntities) : NewEntities[k].kind = "LWPOLYLINE"}
           labels == {k \in 1..Len(NewEntities) : IsText(NewEntities[k])}
       IN /\ Len(NewEntities) = 2
          /\ Cardinality(bars) = 1
          /\ Cardinality(labels) = 1
          /\ \A k \in bars :
               /\ NewEntities[k].lw = 70
               /\ NewEntities[k].pts = IF horizontal
                                       THEN <<Pt(x, y), Pt(x + length, y)>>
                                       ELSE <<Pt(x, y), Pt(x, y + length)>>
          /\ \A k \in labels :
               /\ NewEntities[k].align = "MIDDLE_CENTER"
               /\ IF horizontal
                  THEN 2 * NewEntities[k].pts[1][1] = 2 * x + length
                  ELSE 2 * NewEntities[k].pts[1][2] = 2 * y + length
  /\ (SheetComplete /\ fmt = "dxf") =>
       \A i \in 1..Len(SheetCalls), j \in 1..Len(SheetCalls) :
         (SheetCalls[i].fn = "add_bus_bar" /\ SheetCalls[j].fn = "msp.add_line") =>
           SheetCalls[i].out[1].lw > SheetCalls[j].out[1].lw

(* C20: a call of add_cb_symbol adds a box as wide as it is high, centred    *)
(* on (x, y), and the label at (x, y) with middle-centre alignment; on a PDF  *)
(* sheet the box drawn right before a "CB" label is a square centred on the   *)
(* label's anchor.                                                           *)
C20_BreakerIsCentredSquare ==
  /\ tk.call.fn = "add_cb_symbol" =>
       LET x == tk.call.args[1]
           y == tk.call.args[2]
       IN /\ Len(NewEntities) = 2
          /\ NewEntities[1].kind = "LWPOLYLINE"
          /\ LET b == BBox(NewEntities[1].pts)
             IN /\ b[3] = b[4]
                /\ 2 * b[1] + b[3] = 2 * x
                /\ 2 * b[2] + b[4] = 2 * y
          /\ IsText(NewEntities[2])
          /\ NewEntities[2].text = <<"CB">>
          /\ NewEntities[2].pts = <<Pt(x, y)>>
          /\ NewEntities[2].align = "MIDDLE_CENTER"
  /\ (SheetComplete /\ fmt = "pdf") =>
       \A k \in 2..Len(doc.ops) :
         (doc.ops[k].kind = "string" /\ doc.ops[k].text = <<"CB">>) =>
           /\ doc.ops[k - 1].kind = "rect"
           /\ doc.ops[k].anchor = "centre"
           /\ LET b == BBox(doc.ops[k - 1].pts)
              IN /\ b[3] = b[4]
                 /\ 2 * b[1] + b[3] = 2 * doc.ops[k].pts[1][1]
                 /\ 2 * b[2] + b[4] = 2 * doc.ops[k].pts[1][2]

(* The shapes function fn drew on the PDF sheet *)
DrawnBy(fn) == SelectSeq(doc.ops, LAMBDA o : o.by = fn)

(* The rack symbols of the PDF sheet and their labels *)
RackSymbols == SelectSeq(DrawnBy("draw_rack"), LAMBDA o : o.kind = "rect")

RackLabels == {o.text : o \in {DrawnBy("draw_rack")[k] : k \in 1..Len(DrawnBy("draw_rack"))} \ {RackSymbols[k] : k \in 1..Len(RackSymbols)}}

(* C21: the complete PDF floor plan, whose subtitle says "16-Rack Layout",    *)
(* holds exactly 16 rack symbols, in 4 rows (distinct x) of 4, each with its  *)
(* own label.                                                                 *)
C21_FloorPlanHasSixteenRacks ==
  (SheetComplete /\ fmt = "pdf" /\ SheetCode(fmt, sheet) = "FP") =>
    /\ Contains(TitleShapes(doc)[13].text, <<"16-Rack Layout -- Hot/Cold Aisle">>)
    /\ Len(RackSymbols) = 16
    /\ Cardinality(RackLabels) = 16
    /\ Cardinality({RackSymbols[k].pts[1][1] : k \in 1..Len(RackSymbols)}) = 4


(* The shapes of the frame of sheet j of format f on a new document: the     *)
(* border, then the title block                                              *)
FrameOf(f, j) ==
  LET g == Composer(f, j)
  IN IF f = "dxf"
     THEN add_border(g.W, g.H)
          \o add_title_block(g.dwg_no, g.title_line1, g.title_line2, g.standard,
                             g.x_off, g.y_off)
     ELSE RunProg(Canvas_new(OutPath(f, j), 0),
                  Call("draw_border", draw_border)
                  \o Call("draw_title_block",
                          draw_title_block(g.dwg_no, g.title, g.subtitle, g.standard,
                                           <<"A">>, <<"NTS">>))).ops

(* The document of the current sheet starts with the frame: as far as it is  *)
(* drawn it is a prefix of the frame, and every later shape is drawn by      *)
(* something else than the frame functions.                                  *)
FrameFirst ==
  pc.at \in {"info", "border", "title", "grid", "body", "save"} =>
    LET S == Shapes(doc)
        F == FrameOf(fmt, sheet)
    IN IF Len(S) <= Len(F)
       THEN S = SubSeq(F, 1, Len(S))
       ELSE /\ SubSeq(S, 1, Len(F)) = F
            /\ fmt = "pdf" =>
                 \A k \in (Len(F) + 1)..Len(S) :
                   S[k].by \notin {"draw_border", "draw_title_block"}

(* The entities the last adding call of a composer body adds *)
LastOut(body) == body[Max({k \in 1..Len(body) : body[k].out # <<>>})].out

(* C22: on every sheet of both formats the border and then the title block   *)
(* are drawn before any other shape, and a step that writes the file leaves  *)
(* the document as it is and writes all of it; the written DXF file ends     *)
(* with the entities of the last call of the composer body.                  *)
C22_FrameFirstSaveLast ==
  [][/\ FrameFirst
     /\ disk' # disk =>
          LET p == OutPath(fmt, sheet)
          IN /\ doc' = doc
             /\ p \in DOMAIN disk'
             /\ Shapes(disk'[p].data) = Shapes(doc)
             /\ Len(Shapes(doc)) > Len(FrameOf(fmt, sheet))
             /\ fmt = "dxf" =>
                  LET S == Shapes(doc)
                      L == LastOut(SheetCalls)
                  IN SubSeq(S, Len(S) - Len(L) + 1, Len(S)) = L]_vars

C22_Witness ==
  /\ pc.at = "progress"
  /\ sheet = 2
  /\ fmt = "dxf"
  /\ OutPath(fmt, 1) \in DOMAIN disk
  /\ Len(Shapes(disk[OutPath(fmt, 1)].data)) > 24


(* The lowest y a PDF shape reaches on the page (the baseline of a string) *)
LowestY(o) == IF o.kind = "circle" THEN o.pts[1][2] - o.r ELSE BBox(o.pts)[2]

(* The shapes of the PDF sheet that are not part of its frame *)
SheetContent ==
  SelectSeq(doc.ops, LAMBDA o : o.by \notin {"draw_border", "draw_title_block", "draw_grid_refs"})

(* C23: on every PDF sheet every shape and text outside the frame lies at or *)
(* above DRW_BOTTOM, hence above the title-block panel, which ends 36 mm     *)
(* above the inner border.                                                   *)
C23_ContentAboveTitleBlock ==
  (fmt = "pdf" /\ pc.at \in {"body", "save"}) =>
    /\ DRW_BOTTOM >= BORDER + 36 * mm
    /\ \A k \in 1..Len(SheetContent) : LowestY(SheetContent[k]) >= DRW_BOTTOM


(* Boxes <<x, y, w, h>>: a inside b; the interiors of a and b meet *)
BoxInside(a, b) ==
  /\ b[1] <= a[1] /\ a[1] + a[3] <= b[1] + b[3]
  /\ b[2] <= a[2] /\ a[2] + a[4] <= b[2] + b[4]

BoxesOverlap(a, b) ==
  /\ a[1] < b[1] + b[3] /\ b[1] < a[1] + a[3]
  /\ a[2] < b[2] + b[4] /\ b[2] < a[2] + a[4]

(* The rectangles the composer itself draws on the PDF sheet, in order: on   *)
(* the floor plan the first is the building envelope, the second the data    *)
(* hall                                                                      *)
OwnRects == SelectSeq(SheetContent, LAMBDA o : o.by = "main" /\ o.kind = "rect")

(* The boxes of the rooms drawn by draw_room *)
RoomBoxes ==
  LET R == SelectSeq(DrawnBy("draw_room"), LAMBDA o : o.kind = "rect")
  IN [k \in 1..Len(R) |-> BBox(R[k].pts)]

(* C24: on the complete PDF floor plan the rooms drawn by draw_room lie      *)
(* inside the building envelope, no two of them overlap, and none overlaps   *)
(* the data hall.                                                            *)
C24_RoomsDisjointInEnvelope ==
  (SheetComplete /\ fmt = "pdf" /\ SheetCode(fmt, sheet) = "FP") =>
    LET envelope == BBox(OwnRects[1].pts)
        hall == BBox(OwnRects[2].pts)
    IN /\ BoxInside(hall, envelope)
       /\ \A k \in 1..Len(RoomBoxes) :
            /\ BoxInside(RoomBoxes[k], envelope)
            /\ ~BoxesOverlap(RoomBoxes[k], hall)
            /\ \A j \in 1..Len(RoomBoxes) :
                 j # k => ~BoxesOverlap(RoomBoxes[k], RoomBoxes[j])


(* The outline a call of the DXF floor plan draws: its first entity *)
OutlineOf(st) == BBox(st.out[1].pts)

(* The calls of the DXF floor plan that draw a space: a room box, or an      *)
(* outline the composer adds itself outside any loop (envelope, yards)       *)
IsSpace(st) == st.fn = "add_room_box" \/ (st.fn = "msp.add_lwpolyline" /\ st.loop = 0)

(* The calls that draw something placed in a space: an equipment block, a    *)
(* rack row (the outline added in the loop over row_labels, line 274)        *)
IsPlaced(st) == st.fn = "add_equipment" \/ (st.fn = "msp.add_lwpolyline" /\ st.loop = 274)

(* The space call k places its block in: the last space drawn before it *)
HostOf(calls, k) == calls[Max({j \in 1..(k - 1) : IsSpace(calls[j])})]

(* C25: on the DXF floor plan every room box lies inside the building        *)
(* envelope (30,170)-(580,810), no two room boxes overlap, and every rack    *)
(* row and equipment block lies inside the space drawn before it.            *)
C25_DxfRoomsInsideEnvelope ==
  (fmt = "dxf" /\ sheet > 0 /\ SheetCode(fmt, sheet) = "FP" /\ pc.at = "body") =>
    LET calls == SubSeq(SheetCalls, 1, pc.k)
        Rooms == {k \in 1..Len(calls) : calls[k].fn = "add_room_box"}
        envelope == <<30 * du, 170 * du, 550 * du, 640 * du>>
    IN /\ Len(calls) > 0 => OutlineOf(calls[1]) = envelope
       /\ \A k \in Rooms :
            /\ BoxInside(OutlineOf(calls[k]), envelope)
            /\ \A j \in Rooms : j # k => ~BoxesOverlap(OutlineOf(calls[k]), OutlineOf(calls[j]))
       /\ \A k \in 1..Len(calls) :
            IsPlaced(calls[k]) => BoxInside(OutlineOf(calls[k]), OutlineOf(HostOf(calls, k)))


(* The feeders of the generator drawn by call k: the lines the composer adds *)
(* right after the generator symbol                                          *)
FeedersOf(calls, k) ==
  {j \in (k + 1)..Len(calls) :
     \A i \in (k + 1)..j : calls[i].fn = "msp.add_line"}

(* The end points of the bus bars of the sheet *)
BusEnds(calls) ==
  UNION {{calls[k].out[1].pts[1], calls[k].out[1].pts[2]} :
           k \in {i \in 1..Len(calls) : calls[i].fn = "add_bus_bar"}}

(* C26: on the complete DXF electrical sheet every generator has a feeder,   *)
(* and every feeder starts on the generator circle at the point level with   *)
(* its centre that faces the feeder's far end, which is an end of a bus bar: *)
(* the feeder leads away from the circle and does not cross its interior.    *)
C26_FeederLeavesGeneratorOutward ==
  (SheetComplete /\ fmt = "dxf" /\ SheetCode(fmt, sheet) = "EL") =>
    \A k \in 1..Len(SheetCalls) :
      SheetCalls[k].fn = "add_generator_symbol" =>
        /\ FeedersOf(SheetCalls, k) # {}
        /\ \A j \in FeedersOf(SheetCalls, k) :
             LET g == SheetCalls[k].out[1]
                 p1 == SheetCalls[j].out[1].pts[1]
                 p2 == SheetCalls[j].out[1].pts[2]
             IN /\ p2 \in BusEnds(SheetCalls)
                /\ p1[2] = g.pts[1][2]
                /\ p1[1] = IF p2[1] > g.pts[1][1] THEN g.pts[1][1] + g.r
                                                  ELSE g.pts[1][1] - g.r


(* A function has just returned to the PDF composer or the composer to the   *)
(* driver: the frame helpers, a helper called from the body, the body itself *)
AtReturn ==
  \/ pc.at \in {"title", "grid", "save"}
  \/ pc.at = "body" /\ (pc.k = 0 \/ SheetCalls[pc.k].fn \notin CanvasMethods)

(* C27: while a PDF sheet is drawn, the dash pattern is solid, no state is   *)
(* saved and the transformation is the identity whenever a helper or the     *)
(* composer has returned; the canvas is translated or rotated only between   *)
(* saveState and restoreState; and every shape stroked with a dash pattern   *)
(* is drawn by the function that set the pattern.                            *)
C27_DashAndTransformDoNotLeak ==
  (fmt = "pdf" /\ pc.at \in {"border", "title", "grid", "body", "save"}) =>
    /\ AtReturn =>
         /\ doc.gs.dash = <<>>
         /\ doc.saved = <<>>
    /\ doc.saved = <<>> => doc.ctm = [dx |-> 0, dy |-> 0, rot |-> 0]
    /\ \A k \in 1..Len(doc.ops) :
         (doc.ops[k].stroke = 1 /\ doc.ops[k].gs.dash # <<>>) =>
           doc.ops[k].src.dash = doc.ops[k].by

(* The floor plan is complete: a helper has drawn a dashed line and returned, *)
(* and a rotated text is on the page                                          *)
C27_Witness ==
  /\ fmt = "pdf"
  /\ pc.at = "save"
  /\ doc.gs.dash = <<>>
  /\ \E k \in 1..Len(doc.ops) : doc.ops[k].gs.dash # <<>> /\ doc.ops[k].by = "draw_legend_item"
  /\ \E k \in 1..Len(doc.ops) : doc.ops[k].rot # 0


(* The index of the LEGEND heading among the shapes of the PDF sheet: the    *)
(* legend frame is the rectangle drawn before it, the heading underline the  *)
(* line drawn after it                                                       *)
LegendHeadingAt == CHOOSE h \in 1..Len(doc.ops) : IsLegendHeading(doc.ops[h])

(* The y of a legend entry: draw_legend_item draws the label at y + 0.5 mm *)
EntryY(p) == p.lab.pts[1][2] - mm \div 2

(* C28: on every complete PDF sheet every legend entry lies inside the       *)
(* legend frame and below the heading underline: with the frame at (lx, ly)  *)
(* of height H, ly <= y and y + 3 mm <= ly + H for the y of every entry, and *)
(* y + 3 mm is at most the y of the underline.                               *)
C28_LegendEntriesInsideFrame ==
  (SheetComplete /\ fmt = "pdf") =>
    \A h \in {LegendHeadingAt}, P \in {LegendPairs} :
      \A frame \in {doc.ops[h - 1]}, underline \in {doc.ops[h + 1]} :
        /\ frame.kind = "rect" /\ frame.by = "main"
        /\ underline.kind = "line" /\ underline.by = "main"
        /\ Len(P) = 5
        /\ \A k \in 1..Len(P) :
             /\ BBox(frame.pts)[2] <= EntryY(P[k])
             /\ EntryY(P[k]) + 3 * mm <= BBox(frame.pts)[2] + BBox(frame.pts)[4]
             /\ EntryY(P[k]) + 3 * mm <= underline.pts[1][2]
             /\ BBox(frame.pts)[1] <= BBox(P[k].sw.pts)[1]


(* The labels draw_grid_refs has drawn on the PDF sheet, and those with      *)
(* text t                                                                    *)
GridLabels == DrawnBy("draw_grid_refs")

LabelsOf(G, t) == SelectSeq(G, LAMBDA o : o.text = <<t>>)

(* C29: once draw_grid_refs has run on a PDF sheet, each of the 10 column    *)
(* letters is drawn twice at one x (above and below the drawable area) and   *)
(* each of the 8 row digits twice at one y (left and right of it), the       *)
(* columns and rows step by a tenth of DRW_W and an eighth of DRW_H from     *)
(* half a step inside the drawable area, and every label anchor lies outside *)
(* the drawable area, inside the inner border rectangle and above the        *)
(* title-block panel.                                                        *)
C29_GridRefsBetweenAreaAndBorder ==
  (fmt = "pdf" /\ pc.at \in {"body", "save"}) =>
    \A G \in {GridLabels} :
      LET cols == <<"A", "B", "C", "D", "E", "F", "G", "H", "J", "K">>
          rows == <<"1", "2", "3", "4", "5", "6", "7", "8">>
          X(t) == LabelsOf(G, t)[1].pts[1][1]
          Y(t) == LabelsOf(G, t)[1].pts[1][2]
      IN /\ Len(G) = 2 * (Len(cols) + Len(rows))
         /\ \A k \in 1..Len(cols) :
              /\ Len(LabelsOf(G, cols[k])) = 2
              /\ LabelsOf(G, cols[k])[2].pts[1][1] = X(cols[k])
              /\ LabelsOf(G, cols[k])[2].pts[1][2] < DRW_BOTTOM
              /\ Y(cols[k]) > DRW_TOP
              /\ 2 * Len(cols) * (X(cols[k]) - DRW_LEFT) = (2 * k - 1) * DRW_W
         /\ \A k \in 1..Len(rows) :
              /\ Len(LabelsOf(G, rows[k])) = 2
              /\ LabelsOf(G, rows[k])[2].pts[1][2] = Y(rows[k])
              /\ LabelsOf(G, rows[k])[2].pts[1][1] > DRW_RIGHT
              /\ X(rows[k]) < DRW_LEFT
              /\ 2 * Len(rows) * (Y(rows[k]) + 2 * pt - DRW_BOTTOM) = (2 * k - 1) * DRW_H
         /\ \A k \in 1..Len(G) :
              /\ BORDER <= G[k].pts[1][1] /\ G[k].pts[1][1] <= PAGE_W - BORDER
              /\ BORDER + 36 * mm <= G[k].pts[1][2] /\ G[k].pts[1][2] <= PAGE_H - BORDER


(* The middle of the top and of the bottom edge of the box of shape o *)
TopCentre(o) == Pt(BBox(o.pts)[1] + BBox(o.pts)[3] \div 2, BBox(o.pts)[2] + BBox(o.pts)[4])

BottomCentre(o) == Pt(BBox(o.pts)[1] + BBox(o.pts)[3] \div 2, BBox(o.pts)[2])

(* p lies on the top edge of the box of shape o *)
OnTopEdge(p, o) ==
  /\ p[2] = BBox(o.pts)[2] + BBox(o.pts)[4]
  /\ BBox(o.pts)[1] <= p[1] /\ p[1] <= BBox(o.pts)[1] + BBox(o.pts)[3]

(* The symbols of the PDF network sheet, in drawing order: the racks (the    *)
(* rack-filled rectangles of the composer), the top-of-rack switches (its    *)
(* rounded boxes filled C_NET_AGG), the core switches (the boxes labelled    *)
(* CORE-SW-), and the links drawn by net_line                                *)
NetRacks ==
  SelectSeq(doc.ops, LAMBDA o : o.kind = "rect" /\ o.by = "main" /\ o.fill = 1
                                  /\ o.gs.fill = HexColor.C_RACK_FILL)

NetToRs ==
  SelectSeq(doc.ops, LAMBDA o : o.kind = "roundRect" /\ o.by = "main" /\ o.fill = 1
                                  /\ o.gs.fill = HexColor.C_NET_AGG)

NetCores ==
  LET at == {k \in 1..(Len(doc.ops) - 1) :
               /\ doc.ops[k].kind = "roundRect"
               /\ doc.ops[k + 1].kind = "string"
               /\ doc.ops[k + 1].text \in {<<"CORE-SW-A">>, <<"CORE-SW-B">>}}
  IN {doc.ops[k] : k \in at}

NetLinks == SelectSeq(doc.ops, LAMBDA o : o.kind = "line" /\ o.by = "net_line")

(* C30: on the complete PDF network sheet there are 16 racks, 8 top-of-rack  *)
(* switches and 2 core switches; exactly one link leaves the top of every    *)
(* rack and it ends under switch floor(i/2) for rack i counted from 0; so    *)
(* exactly two rack links end under every switch; and from the top of every  *)
(* switch exactly one link runs to each core switch.                         *)
C30_RacksDualHomedThroughToR ==
  (SheetComplete /\ fmt = "pdf" /\ SheetCode(fmt, sheet) = "NT") =>
    \A R \in {NetRacks}, T \in {NetToRs}, L \in {NetLinks} :
      LET From(p) == {k \in 1..Len(L) : L[k].pts[1] = p}
          Up(t) == {k \in 1..Len(L) : OnTopEdge(L[k].pts[1], T[t])}
      IN /\ Len(R) = 16 /\ Len(T) = 8 /\ Cardinality(NetCores) = 2
         /\ \A i \in 1..Len(R) :
              /\ Cardinality(From(TopCentre(R[i]))) = 1
              /\ \A k \in From(TopCentre(R[i])) :
                   L[k].pts[2] = BottomCentre(T[(i - 1) \div 2 + 1])
         /\ \A t \in 1..Len(T) :
              /\ Cardinality({k \in 1..Len(L) : L[k].pts[2] = BottomCentre(T[t])}) = 2
              /\ Cardinality(Up(t)) = 2
              /\ \A c \in NetCores :
                   Cardinality({k \in Up(t) : L[k].pts[2] = BottomCentre(c)}) = 1

C30_Witness ==
  /\ SheetComplete
  /\ fmt = "pdf"
  /\ SheetCode(fmt, sheet) = "NT"
  /\ Len(NetRacks) = 16
  /\ Len(NetLinks) > 32

====
